---- MODULE Spec2Model ----
EXTENDS Integers, Sequences, FiniteSets, TLC

\* Strings of the program are sequences of one-character strings, so that
\* their bytes, their length and their substrings can be computed.

\* as_bytes of one character (the characters that occur in this model).
ByteOf(c) ==
    CASE c = "\n" -> 10 [] c = "\t" -> 9 [] c = "\r" -> 13 [] c = " " -> 32
      [] c = "0" -> 48 [] c = "1" -> 49 [] c = "2" -> 50 [] c = "3" -> 51
      [] c = "4" -> 52 [] c = "5" -> 53 [] c = "6" -> 54 [] c = "7" -> 55
      [] c = "8" -> 56 [] c = "9" -> 57
      [] c = "A" -> 65 [] c = "D" -> 68 [] c = "L" -> 76 [] c = "M" -> 77
      [] c = "R" -> 82
      [] c = "a" -> 97 [] c = "b" -> 98 [] c = "c" -> 99 [] c = "d" -> 100
      [] c = "e" -> 101 [] c = "f" -> 102 [] c = "r" -> 114 [] c = "x" -> 120 [] c = "y" -> 121
      [] c = "z" -> 122
      [] c = "-" -> 45 [] c = "g" -> 103 [] c = "h" -> 104 [] c = "i" -> 105
      [] c = "m" -> 109 [] c = "n" -> 110 [] c = "o" -> 111 [] c = "p" -> 112
      [] c = "s" -> 115 [] c = "t" -> 116 [] c = "u" -> 117
      [] c = "<" -> 60 [] c = ">" -> 62 [] c = "?" -> 63 [] c = "l" -> 108
      [] c = "v" -> 118

\* Option<usize>: <<>> is None, <<i>> is Some(i)
None == <<>>
Some(v) == <<v>>

\* ---------------------------------------------------------------- review.rs
\* u64 values are eight bytes, least significant first.
FNV_OFFSET_BASIS == <<37, 35, 34, 132, 228, 156, 242, 203>>
FNV_PRIME_LOW == 435
FNV_PRIME_SHIFT == 5

RECURSIVE XorByte(_, _)
XorByte(a, b) ==
    IF a = 0 THEN b
    ELSE IF b = 0 THEN a
    ELSE ((a + b) % 2) + 2 * XorByte(a \div 2, b \div 2)

RECURSIVE MulSmallFrom(_, _, _, _)
MulSmallFrom(s, m, i, carry) ==
    IF i > 8 THEN <<>>
    ELSE LET t == s[i] * m + carry
         IN  <<t % 256>> \o MulSmallFrom(s, m, i + 1, t \div 256)

RECURSIVE AddFrom(_, _, _, _)
AddFrom(a, b, i, carry) ==
    IF i > 8 THEN <<>>
    ELSE LET t == a[i] + b[i] + carry
         IN  <<t % 256>> \o AddFrom(a, b, i + 1, t \div 256)

ShiftBytes(s, n) == [i \in 1..8 |-> IF i > n THEN s[i - n] ELSE 0]

\* state.wrapping_mul(FNV_PRIME), FNV_PRIME = 2^40 + 0x1b3
WrappingMulPrime(s) ==
    AddFrom(MulSmallFrom(s, FNV_PRIME_LOW, 1, 0), ShiftBytes(s, FNV_PRIME_SHIFT), 1, 0)

\* One turn of the loop of write_bytes: state ^= byte; state = state * FNV_PRIME.
\* The state is bound to its value before the multiplication reads its limbs.
HashByte(state, byte) ==
    CHOOSE next \in
        {WrappingMulPrime([s EXCEPT ![1] = XorByte(s[1], byte)]) : s \in {state}} : TRUE

RECURSIVE write_bytes(_, _)
write_bytes(state, bytes) ==
    IF bytes = <<>> THEN state
    ELSE CHOOSE last \in
            {write_bytes(s, Tail(bytes)) : s \in {HashByte(state, Head(bytes))}} : TRUE

write_str(state, value) ==
    CHOOSE last \in
        {write_bytes(s, <<0>>) :
            s \in {write_bytes(state, [i \in 1..Len(value) |-> ByteOf(value[i])])}} : TRUE

HexDigit(n) ==
    <<"0", "1", "2", "3", "4", "5", "6", "7", "8", "9", "a", "b", "c", "d", "e", "f">>[n + 1]

finish_hex(state) ==
    [i \in 1..16 |->
        LET byte == state[8 - ((i - 1) \div 2)]
        IN  HexDigit(IF i % 2 = 1 THEN byte \div 16 ELSE byte % 16)]

\* Option::unwrap_or
unwrap_or(option, default) == IF option = None THEN default ELSE option[1]

RECURSIVE write_lines(_, _, _)
write_lines(state, marker, lines) ==
    IF lines = <<>> THEN state
    ELSE CHOOSE last \in
            {write_lines(s, marker, Tail(lines)) :
                s \in {write_str(write_str(state, marker), Head(lines))}} : TRUE

\* compute_review_key that leaves the right lines out of the digest.
compute_review_key_left_only(descriptor, left_lines, right_lines) ==
    LET h1 == write_str(FNV_OFFSET_BASIS, descriptor.raw_status)
        h2 == write_str(h1, descriptor.display_path)
        h3 == write_str(h2, unwrap_or(descriptor.base_path, <<>>))
        h4 == write_str(h3, unwrap_or(descriptor.head_path, <<>>))
        h5 == write_lines(h4, <<"L">>, left_lines)
    IN  finish_hex(h5)

\* compute_review_key that also digests where the head content came from.
compute_review_key_with_source(descriptor, left_lines, right_lines) ==
    LET h1 == write_str(FNV_OFFSET_BASIS, descriptor.raw_status)
        h2 == write_str(h1, descriptor.display_path)
        h3 == write_str(h2, unwrap_or(descriptor.base_path, <<>>))
        h4 == write_str(h3, unwrap_or(descriptor.head_path, <<>>))
        h5 == write_lines(h4, <<"L">>, left_lines)
        h6 == write_lines(h5, <<"R">>, right_lines)
        h7 == write_str(h6, IF descriptor.head_source = "Commit" THEN <<"c">> ELSE <<"d">>)
    IN  finish_hex(h7)

compute_review_key(descriptor, left_lines, right_lines) ==
    LET h1 == write_str(FNV_OFFSET_BASIS, descriptor.raw_status)
        h2 == write_str(h1, descriptor.display_path)
        h3 == write_str(h2, unwrap_or(descriptor.base_path, <<>>))
        h4 == write_str(h3, unwrap_or(descriptor.head_path, <<>>))
        h5 == write_lines(h4, <<"L">>, left_lines)
        h6 == write_lines(h5, <<"R">>, right_lines)
    IN  finish_hex(h6)

\* ------------------------------------------------------------------ text.rs
normalized_char_count(value) == Len(value)

\* value.replace('\t', "  ").replace('\r', "")
RECURSIVE normalize_content(_)
normalize_content(value) ==
    IF value = <<>> THEN <<>>
    ELSE (IF Head(value) = "\t" THEN <<" ", " ">>
          ELSE IF Head(value) = "\r" THEN <<>>
          ELSE <<Head(value)>>) \o normalize_content(Tail(value))

Max(a, b) == IF a >= b THEN a ELSE b
Min(a, b) == IF a <= b THEN a ELSE b
\* A subtraction that does not saturate.
plain_sub(a, b) == a - b

saturating_sub(a, b) == IF a >= b THEN a - b ELSE 0
clamp(v, lo, hi) == IF v < lo THEN lo ELSE IF v > hi THEN hi ELSE v

RECURSIVE get_max_normalized_line_length(_)
get_max_normalized_line_length(lines) ==
    IF lines = <<>> THEN 0
    ELSE Max(normalized_char_count(normalize_content(Head(lines))),
             get_max_normalized_line_length(Tail(lines)))

\* ---------------------------------------------------------------- render.rs
HEADER_LINE_COUNT == 4
FOOTER_LINE_COUNT == 2
FRAME_DIVIDER_LINE_COUNT == 2
MIN_BODY_LINE_COUNT == 3
PANE_SEPARATOR == <<" ", "|", " ">>

\* A body height with no minimum.
get_body_line_count_unfloored(rows) ==
    saturating_sub(rows, HEADER_LINE_COUNT + FOOTER_LINE_COUNT + FRAME_DIVIDER_LINE_COUNT)

get_body_line_count(rows) ==
    Max(saturating_sub(rows, HEADER_LINE_COUNT + FOOTER_LINE_COUNT + FRAME_DIVIDER_LINE_COUNT),
        MIN_BODY_LINE_COUNT)

\* max_lines.to_string().len()
RECURSIVE DecimalDigits(_)
DecimalDigits(n) == IF n < 10 THEN 1 ELSE 1 + DecimalDigits(n \div 10)

\* A layout whose right pane starts one column after the left pane.
create_frame_layout_narrow_separator(columns, rows, max_lines) ==
    LET body_line_count == get_body_line_count(rows)
        available_pane_width == Max(saturating_sub(columns, Len(PANE_SEPARATOR)), 2)
        left_pane_width == Max(available_pane_width \div 2, 1)
        right_pane_width == Max(saturating_sub(available_pane_width, left_pane_width), 1)
        line_number_width == Max(DecimalDigits(max_lines), 3)
        body_start_row == HEADER_LINE_COUNT + 1
        right_pane_start_column == left_pane_width + 1
    IN  [columns |-> columns,
         body_line_count |-> body_line_count,
         left_pane_width |-> left_pane_width,
         right_pane_width |-> right_pane_width,
         left_content_width |-> saturating_sub(left_pane_width, line_number_width + 1),
         right_content_width |-> saturating_sub(right_pane_width, line_number_width + 1),
         line_number_width |-> line_number_width,
         body_start_row |-> body_start_row,
         body_end_row |-> body_start_row + saturating_sub(body_line_count, 1),
         left_pane_start_column |-> 0,
         left_pane_end_column |-> saturating_sub(left_pane_width, 1),
         right_pane_start_column |-> right_pane_start_column,
         right_pane_end_column |-> right_pane_start_column + saturating_sub(right_pane_width, 1)]

create_frame_layout(columns, rows, max_lines) ==
    LET body_line_count == get_body_line_count(rows)
        available_pane_width == Max(saturating_sub(columns, Len(PANE_SEPARATOR)), 2)
        left_pane_width == Max(available_pane_width \div 2, 1)
        right_pane_width == Max(saturating_sub(available_pane_width, left_pane_width), 1)
        line_number_width == Max(DecimalDigits(max_lines), 3)
        body_start_row == HEADER_LINE_COUNT + 1
        right_pane_start_column == left_pane_width + Len(PANE_SEPARATOR)
    IN  [columns |-> columns,
         body_line_count |-> body_line_count,
         left_pane_width |-> left_pane_width,
         right_pane_width |-> right_pane_width,
         left_content_width |-> saturating_sub(left_pane_width, line_number_width + 1),
         right_content_width |-> saturating_sub(right_pane_width, line_number_width + 1),
         line_number_width |-> line_number_width,
         body_start_row |-> body_start_row,
         body_end_row |-> body_start_row + saturating_sub(body_line_count, 1),
         left_pane_start_column |-> 0,
         left_pane_end_column |-> saturating_sub(left_pane_width, 1),
         right_pane_start_column |-> right_pane_start_column,
         right_pane_end_column |-> right_pane_start_column + saturating_sub(right_pane_width, 1)]

\* A maximum pane offset without the special case of a pane that shows no content.
get_max_pane_offset_unguarded(max_content_length, content_width) ==
    saturating_sub(max_content_length, content_width)

get_max_pane_offset(max_content_length, content_width) ==
    IF content_width = 0 THEN 0 ELSE saturating_sub(max_content_length, content_width)

get_max_pane_offsets(file, layout) ==
    [left |-> get_max_pane_offset(file.left_max_content_length, layout.left_content_width),
     right |-> get_max_pane_offset(file.right_max_content_length, layout.right_content_width)]

\* Option<PaneSide>: <<>> is None, <<side>> is Some(side)
get_pane_for_column(column, layout) ==
    IF column >= layout.left_pane_start_column /\ column <= layout.left_pane_end_column
    THEN <<"Left">>
    ELSE IF column >= layout.right_pane_start_column /\ column <= layout.right_pane_end_column
    THEN <<"Right">>
    ELSE <<>>

MaxLines(file) == Max(Len(file.left_lines), Len(file.right_lines))

\* The part of render_frame that draw_app writes back into the state.
render_frame(fs, file_index, scroll_offset, pane_offsets, columns, rows) ==
    LET current_file == fs[file_index + 1]
        max_lines == MaxLines(current_file)
        layout == create_frame_layout(columns, rows, max_lines)
        max_scroll == saturating_sub(max_lines, layout.body_line_count)
        max_pane_offsets == get_max_pane_offsets(current_file, layout)
    IN  [max_scroll |-> max_scroll,
         clamped_scroll_offset |-> Min(scroll_offset, max_scroll),
         clamped_pane_offsets |->
            [left |-> Min(pane_offsets.left, max_pane_offsets.left),
             right |-> Min(pane_offsets.right, max_pane_offsets.right)]]

\* ------------------------------------------------------------------ diff.rs
\* What the version-control collaborator delivers for one changed file: the
\* descriptor, both sides' lines and the highlight sets of its patch.
RawFile(status, path, left, right, deleted, added) ==
    [descriptor |-> [raw_status |-> status, display_path |-> path,
                     base_path |-> Some(path), head_path |-> Some(path),
                     base_source |-> "Commit", head_source |-> "Commit"],
     left_lines |-> left, right_lines |-> right,
     left_deleted_line_indexes |-> deleted, right_added_line_indexes |-> added]

\* The changed files of the comparison.
ChangedFiles ==
    << RawFile(<<"M">>, <<"x">>,
               << <<"a", "r">>, <<"a">>, <<>>, <<"r">>, <<"a">> >>,
               << <<"a">>, <<"\t">>, <<"r">>, <<"a">> >>,
               {0, 2}, {2, 3}),
       RawFile(<<"M">>, <<"y">>,
               << <<"R">>, <<"r", "r">>, <<"a">>, <<"r">> >>,
               << <<"r">>, <<"a">>, <<"a">> >>,
               {1}, {}),
       RawFile(<<"M">>, <<"z">>, << <<"a">> >>, << <<"r">> >>, {0}, {0}) >>

\* Two states of the compared content: in the second, the head side of the
\* third file has changed.
Snapshots ==
    << ChangedFiles,
       << ChangedFiles[1], ChangedFiles[2],
          RawFile(<<"M">>, <<"z">>, << <<"a">> >>, << <<"a">> >>, {0}, {0}) >> >>

build_file_view(raw) ==
    [descriptor |-> raw.descriptor,
     review_key |-> compute_review_key(raw.descriptor, raw.left_lines, raw.right_lines),
     left_lines |-> raw.left_lines,
     right_lines |-> raw.right_lines,
     left_deleted_line_indexes |-> raw.left_deleted_line_indexes,
     right_added_line_indexes |-> raw.right_added_line_indexes,
     left_max_content_length |-> get_max_normalized_line_length(raw.left_lines),
     right_max_content_length |-> get_max_normalized_line_length(raw.right_lines)]

build_file_views(descriptors) == [i \in 1..Len(descriptors) |-> build_file_view(descriptors[i])]

\* The file views of each content state, built once.
FileViews == [s \in 1..Len(Snapshots) |-> build_file_views(Snapshots[s])]

\* ------------------------------------------------- review.rs: the review file
IsWhitespace(c) == c \in {" ", "\t", "\r", "\n"}

RECURSIVE TrimStart(_)
TrimStart(line) ==
    IF line # <<>> /\ IsWhitespace(Head(line)) THEN TrimStart(Tail(line)) ELSE line

RECURSIVE TrimEnd(_)
TrimEnd(line) ==
    IF line # <<>> /\ IsWhitespace(line[Len(line)])
    THEN TrimEnd(SubSeq(line, 1, Len(line) - 1))
    ELSE line

\* str::trim
Trim(line) == TrimEnd(TrimStart(line))

\* A line that ended with "\n" loses one "\r" before it.
StripCr(line) ==
    IF line # <<>> /\ line[Len(line)] = "\r" THEN SubSeq(line, 1, Len(line) - 1) ELSE line

\* str::lines: the text split at every "\n"; a final line needs no "\n"
RECURSIVE LinesFrom(_, _)
LinesFrom(raw, current) ==
    IF raw = <<>> THEN (IF current = <<>> THEN <<>> ELSE <<current>>)
    ELSE IF Head(raw) = "\n" THEN <<StripCr(current)>> \o LinesFrom(Tail(raw), <<>>)
    ELSE LinesFrom(Tail(raw), Append(current, Head(raw)))

Lines(raw) == LinesFrom(raw, <<>>)

parse_reviewed_hashes(raw) ==
    LET lines == Lines(raw)
    IN  {Trim(lines[i]) : i \in 1..Len(lines)} \ {<<>>}

\* the byte order of &str
RECURSIVE StrLess(_, _)
StrLess(a, b) ==
    IF b = <<>> THEN FALSE
    ELSE IF a = <<>> THEN TRUE
    ELSE IF ByteOf(Head(a)) # ByteOf(Head(b)) THEN ByteOf(Head(a)) < ByteOf(Head(b))
    ELSE StrLess(Tail(a), Tail(b))

\* entries.sort_unstable()
RECURSIVE SortedEntries(_)
SortedEntries(hashes) ==
    IF hashes = {} THEN <<>>
    ELSE LET first == CHOOSE h \in hashes : \A o \in hashes \ {h} : StrLess(h, o)
         IN  <<first>> \o SortedEntries(hashes \ {first})

RECURSIVE Join(_, _)
Join(entries, separator) ==
    IF entries = <<>> THEN <<>>
    ELSE IF Len(entries) = 1 THEN Head(entries)
    ELSE Head(entries) \o separator \o Join(Tail(entries), separator)

\* An output whose last line is not newline-terminated.
PersistOutput_joined(reviewed_hashes) == Join(SortedEntries(reviewed_hashes), <<"\n">>)

\* The text persist_reviewed_hashes hands to fs::write.
PersistOutput(reviewed_hashes) ==
    LET output == Join(SortedEntries(reviewed_hashes), <<"\n">>)
    IN  IF output # <<>> THEN Append(output, "\n") ELSE output

\* reviewed_flags_for_files that ignores the loaded set.
reviewed_flags_all_false(reviewed_hashes, fs) == [i \in 1..Len(fs) |-> FALSE]

\* ReviewStore::reviewed_flags_for_files
reviewed_flags_for_files(reviewed_hashes, fs) ==
    [i \in 1..Len(fs) |-> fs[i].review_key \in reviewed_hashes]

\* ReviewStore::set_reviewed
\* A store that forgets every other fingerprint when one is marked.
set_reviewed_replacing(reviewed_hashes, review_key, reviewed) ==
    IF reviewed THEN {review_key} ELSE reviewed_hashes \ {review_key}

set_reviewed(reviewed_hashes, review_key, reviewed) ==
    IF reviewed THEN reviewed_hashes \cup {review_key} ELSE reviewed_hashes \ {review_key}

\* -------------------------------------------------------------------- app.rs
MOUSE_WHEEL_SCROLL_LINES == 3
MOUSE_WHEEL_HORIZONTAL_COLUMNS == 8


\* AppState::new that starts the count at zero whatever the flags are.
AppState_new_uncounted(file_count, reviewed_by_file) ==
    LET flags == IF Len(reviewed_by_file) = file_count
                 THEN reviewed_by_file
                 ELSE [i \in 1..file_count |-> FALSE]
    IN  [file_index |-> 0,
         scroll_offset |-> 0,
         pane_offsets_by_file |-> [i \in 1..file_count |-> [left |-> 0, right |-> 0]],
         reviewed_by_file |-> flags,
         reviewed_count |-> 0,
         search_input_mode |-> FALSE,
         search_query |-> <<>>,
         search_input |-> <<>>,
         search_match_line_indexes |-> <<>>,
         search_match_index |-> None]

AppState_new(file_count, reviewed_by_file) ==
    LET flags == IF Len(reviewed_by_file) = file_count
                 THEN reviewed_by_file
                 ELSE [i \in 1..file_count |-> FALSE]
    IN  [file_index |-> 0,
         scroll_offset |-> 0,
         pane_offsets_by_file |-> [i \in 1..file_count |-> [left |-> 0, right |-> 0]],
         reviewed_by_file |-> flags,
         reviewed_count |-> Cardinality({i \in 1..file_count : flags[i]}),
         search_input_mode |-> FALSE,
         search_query |-> <<>>,
         search_input |-> <<>>,
         search_match_line_indexes |-> <<>>,
         search_match_index |-> None]

current_offsets(a) == a.pane_offsets_by_file[a.file_index + 1]

set_current_offsets(a, pane_offsets) ==
    [a EXCEPT !.pane_offsets_by_file[a.file_index + 1] = pane_offsets]

is_current_file_reviewed(a) == a.reviewed_by_file[a.file_index + 1]

\* A toggle that can only mark.
toggle_only_marks(a) ==
    IF a.reviewed_by_file[a.file_index + 1]
    THEN a
    ELSE [a EXCEPT !.reviewed_by_file[a.file_index + 1] = TRUE,
                   !.reviewed_count = a.reviewed_count + 1]

\* The state after the toggle; the value returned is the file's new flag.
toggle_current_file_reviewed(a) ==
    IF a.reviewed_by_file[a.file_index + 1]
    THEN [a EXCEPT !.reviewed_by_file[a.file_index + 1] = FALSE,
                   !.reviewed_count = saturating_sub(a.reviewed_count, 1)]
    ELSE [a EXCEPT !.reviewed_by_file[a.file_index + 1] = TRUE,
                   !.reviewed_count = a.reviewed_count + 1]

\* str::contains
Contains(line, query) ==
    \E start \in 1..(Len(line) - Len(query) + 1) :
        SubSeq(line, start, start + Len(query) - 1) = query

LineMatches(lines, line_index, query) ==
    line_index < Len(lines) /\ Contains(lines[line_index + 1], query)

RECURSIVE MatchIndexesFrom(_, _, _)
MatchIndexesFrom(file, query, line_index) ==
    IF line_index >= MaxLines(file) THEN <<>>
    ELSE (IF LineMatches(file.left_lines, line_index, query)
             \/ LineMatches(file.right_lines, line_index, query)
          THEN <<line_index>> ELSE <<>>)
         \o MatchIndexesFrom(file, query, line_index + 1)

\* A search that looks at the left pane alone.
build_search_match_line_indexes_left_only(file, query) ==
    IF query = <<>> THEN <<>>
    ELSE MatchIndexesFrom([file EXCEPT !.right_lines = <<>>], query, 0)

build_search_match_line_indexes(file, query) ==
    IF query = <<>> THEN <<>> ELSE MatchIndexesFrom(file, query, 0)

\* A refresh that always searches the first file.
refresh_search_matches_for_first_file(a, fs) ==
    IF a.search_query = <<>>
    THEN [a EXCEPT !.search_match_line_indexes = <<>>, !.search_match_index = None]
    ELSE LET matches == build_search_match_line_indexes(fs[1], a.search_query)
         IN  [a EXCEPT !.search_match_line_indexes = matches,
                       !.search_match_index = IF matches = <<>> THEN None ELSE Some(0)]

\* A refresh that recomputes the list and leaves the cursor where it was.
refresh_search_matches_keeping_cursor(a, fs) ==
    IF a.search_query = <<>>
    THEN [a EXCEPT !.search_match_line_indexes = <<>>, !.search_match_index = None]
    ELSE [a EXCEPT !.search_match_line_indexes =
                        build_search_match_line_indexes(fs[a.file_index + 1], a.search_query)]

refresh_search_matches_for_current_file(a, fs) ==
    IF a.search_query = <<>>
    THEN [a EXCEPT !.search_match_line_indexes = <<>>, !.search_match_index = None]
    ELSE LET matches == build_search_match_line_indexes(fs[a.file_index + 1], a.search_query)
         IN  [a EXCEPT !.search_match_line_indexes = matches,
                       !.search_match_index = IF matches = <<>> THEN None ELSE Some(0)]

max_scroll_for_current_file(fs, a, rows) ==
    saturating_sub(MaxLines(fs[a.file_index + 1]), get_body_line_count(rows))

\* A cursor that stops at the ends of the list.
next_match_index_stopping(match_count, current_match_index, forward) ==
    IF match_count = 0 THEN None
    ELSE IF current_match_index # None
    THEN (IF forward
          THEN Some(Min(current_match_index[1] + 1, match_count - 1))
          ELSE Some(saturating_sub(current_match_index[1], 1)))
    ELSE (IF forward THEN Some(0) ELSE Some(match_count - 1))

next_match_index(match_count, current_match_index, forward) ==
    IF match_count = 0 THEN None
    ELSE IF current_match_index # None
    THEN (IF forward
          THEN Some((current_match_index[1] + 1) % match_count)
          ELSE Some((current_match_index[1] + match_count - 1) % match_count))
    ELSE (IF forward THEN Some(0) ELSE Some(match_count - 1))

\* A jump that puts the match line at the top without the clamp to the maximum scroll.
jump_to_search_match_unclamped(a, fs, rows, forward) ==
    IF a.search_match_line_indexes = <<>>
    THEN [a EXCEPT !.search_match_index = None]
    ELSE LET next == next_match_index(Len(a.search_match_line_indexes),
                                      a.search_match_index, forward)
         IN  IF next = None THEN a
             ELSE [a EXCEPT !.search_match_index = next,
                            !.scroll_offset = a.search_match_line_indexes[next[1] + 1]]

jump_to_search_match(a, fs, rows, forward) ==
    IF a.search_match_line_indexes = <<>>
    THEN [a EXCEPT !.search_match_index = None]
    ELSE LET next == next_match_index(Len(a.search_match_line_indexes),
                                      a.search_match_index, forward)
         IN  IF next = None THEN a
             ELSE [a EXCEPT !.search_match_index = next,
                            !.scroll_offset =
                                Min(a.search_match_line_indexes[next[1] + 1],
                                    max_scroll_for_current_file(fs, a, rows))]

\* changed.sort_unstable(); changed.dedup()
RECURSIVE SortedIndexes(_)
SortedIndexes(indexes) ==
    IF indexes = {} THEN <<>>
    ELSE LET first == CHOOSE i \in indexes : \A o \in indexes : i <= o
         IN  <<first>> \o SortedIndexes(indexes \ {first})

\* Hunk starts taken in each pane by itself and merged.
build_hunk_start_lines_per_pane(file) ==
    SortedIndexes(
        {line \in file.left_deleted_line_indexes :
            line = 0 \/ (line - 1) \notin file.left_deleted_line_indexes}
        \cup {line \in file.right_added_line_indexes :
            line = 0 \/ (line - 1) \notin file.right_added_line_indexes})

build_hunk_start_lines(file) ==
    LET changed_set == file.left_deleted_line_indexes \cup file.right_added_line_indexes
    IN  SortedIndexes({line \in changed_set : line = 0 \/ (line - 1) \notin changed_set})

\* A jump that accepts a hunk start at the scroll offset itself.
jump_to_hunk_inclusive(a, fs, rows, forward) ==
    LET hunk_starts == build_hunk_start_lines(fs[a.file_index + 1])
        after == {i \in 1..Len(hunk_starts) : hunk_starts[i] >= a.scroll_offset}
        before == {i \in 1..Len(hunk_starts) : hunk_starts[i] <= a.scroll_offset}
        target == IF forward
                  THEN (IF after # {}
                        THEN hunk_starts[CHOOSE i \in after : \A o \in after : i <= o]
                        ELSE hunk_starts[1])
                  ELSE (IF before # {}
                        THEN hunk_starts[CHOOSE i \in before : \A o \in before : i >= o]
                        ELSE hunk_starts[Len(hunk_starts)])
    IN  IF hunk_starts = <<>> THEN a
        ELSE [a EXCEPT !.scroll_offset = Min(target, max_scroll_for_current_file(fs, a, rows))]

jump_to_hunk(a, fs, rows, forward) ==
    LET hunk_starts == build_hunk_start_lines(fs[a.file_index + 1])
        after == {i \in 1..Len(hunk_starts) : hunk_starts[i] > a.scroll_offset}
        before == {i \in 1..Len(hunk_starts) : hunk_starts[i] < a.scroll_offset}
        target == IF forward
                  THEN (IF after # {}
                        THEN hunk_starts[CHOOSE i \in after : \A o \in after : i <= o]
                        ELSE hunk_starts[1])
                  ELSE (IF before # {}
                        THEN hunk_starts[CHOOSE i \in before : \A o \in before : i >= o]
                        ELSE hunk_starts[Len(hunk_starts)])
    IN  IF hunk_starts = <<>> THEN a
        ELSE [a EXCEPT !.scroll_offset = Min(target, max_scroll_for_current_file(fs, a, rows))]

enter_search_input_mode(a) ==
    [a EXCEPT !.search_input_mode = TRUE, !.search_input = <<>>]

\* A cancel that forgets the committed search as well.
exit_search_input_mode_forgetting(a) ==
    [a EXCEPT !.search_input_mode = FALSE, !.search_input = <<>>,
              !.search_query = <<>>, !.search_match_line_indexes = <<>>,
              !.search_match_index = None]

\* A cancel that leaves what was typed in the buffer.
exit_search_input_mode_keeping_input(a) ==
    [a EXCEPT !.search_input_mode = FALSE]

exit_search_input_mode(a) ==
    [a EXCEPT !.search_input_mode = FALSE, !.search_input = <<>>]

first_match_index_from_line(matches, line_index, forward) ==
    IF matches = <<>> THEN None
    ELSE IF forward
    THEN LET hits == {i \in 1..Len(matches) : matches[i] >= line_index}
         IN  IF hits # {} THEN Some((CHOOSE i \in hits : \A o \in hits : i <= o) - 1)
             ELSE Some(0)
    ELSE LET hits == {i \in 1..Len(matches) : matches[i] <= line_index}
         IN  IF hits # {} THEN Some((CHOOSE i \in hits : \A o \in hits : i >= o) - 1)
             ELSE Some(saturating_sub(Len(matches), 1))

\* A commit that always starts at the first match of the file.
apply_search_input_from_top(a, fs, rows) ==
    LET committed == refresh_search_matches_for_current_file(
                        [a EXCEPT !.search_query = a.search_input,
                                  !.search_input_mode = FALSE,
                                  !.search_input = <<>>], fs)
    IN  IF committed.search_match_line_indexes = <<>> THEN committed
        ELSE [committed EXCEPT
                !.search_match_index = Some(0),
                !.scroll_offset =
                    Min(committed.search_match_line_indexes[1],
                        max_scroll_for_current_file(fs, committed, rows))]

apply_search_input(a, fs, rows) ==
    LET committed == refresh_search_matches_for_current_file(
                        [a EXCEPT !.search_query = a.search_input,
                                  !.search_input_mode = FALSE,
                                  !.search_input = <<>>], fs)
        start_index == first_match_index_from_line(committed.search_match_line_indexes,
                                                   committed.scroll_offset, TRUE)
    IN  IF committed.search_match_line_indexes = <<>> \/ start_index = None THEN committed
        ELSE [committed EXCEPT
                !.search_match_index = start_index,
                !.scroll_offset =
                    Min(committed.search_match_line_indexes[start_index[1] + 1],
                        max_scroll_for_current_file(fs, committed, rows))]

\* move_file that wraps around at the ends.
move_file_wrapping(delta, fs, a) ==
    LET next_index == (a.file_index + delta) % Len(fs)
    IN  IF next_index # a.file_index
        THEN [a EXCEPT !.file_index = next_index, !.scroll_offset = 0]
        ELSE a

\* move_file that keeps the scroll offset of the file it leaves.
move_file_keeping_scroll(delta, fs, a) ==
    [a EXCEPT !.file_index = clamp(a.file_index + delta, 0, saturating_sub(Len(fs), 1))]

\* The state after move_file; the value returned is file_index' # file_index.
move_file(delta, fs, a) ==
    LET max_index == saturating_sub(Len(fs), 1)
        next_index == clamp(a.file_index + delta, 0, max_index)
    IN  IF next_index # a.file_index
        THEN [a EXCEPT !.file_index = next_index, !.scroll_offset = 0]
        ELSE a

\* A scroll that is kept above 0 but not below the maximum scroll.
move_scroll_unclamped(delta, fs, a, rows) ==
    [a EXCEPT !.scroll_offset = Max(a.scroll_offset + delta, 0)]

move_scroll(delta, fs, a, rows) ==
    [a EXCEPT !.scroll_offset =
        clamp(a.scroll_offset + delta, 0, max_scroll_for_current_file(fs, a, rows))]

scroll_to_top(a) == [a EXCEPT !.scroll_offset = 0]

scroll_to_bottom(fs, a, rows) ==
    [a EXCEPT !.scroll_offset = max_scroll_for_current_file(fs, a, rows)]

\* A horizontal scroll that moves both panes of the file together.
move_horizontal_both(pane, delta, fs, a, columns, rows) ==
    LET current_file == fs[a.file_index + 1]
        layout == create_frame_layout(columns, rows, MaxLines(current_file))
        max_offsets == get_max_pane_offsets(current_file, layout)
        current == a.pane_offsets_by_file[a.file_index + 1]
    IN  [a EXCEPT !.pane_offsets_by_file[a.file_index + 1] =
            [left |-> clamp(current.left + delta, 0, max_offsets.left),
             right |-> clamp(current.right + delta, 0, max_offsets.right)]]

move_horizontal(pane, delta, fs, a, columns, rows) ==
    LET current_file == fs[a.file_index + 1]
        layout == create_frame_layout(columns, rows, MaxLines(current_file))
        max_offsets == get_max_pane_offsets(current_file, layout)
        current == a.pane_offsets_by_file[a.file_index + 1]
    IN  IF pane = "Left"
        THEN [a EXCEPT !.pane_offsets_by_file[a.file_index + 1].left =
                            clamp(current.left + delta, 0, max_offsets.left)]
        ELSE [a EXCEPT !.pane_offsets_by_file[a.file_index + 1].right =
                            clamp(current.right + delta, 0, max_offsets.right)]

\* KeyEvent: code is the KeyCode variant, ch the character of KeyCode::Char
Key(code, ch, ctrl, alt, shift) ==
    [code |-> code, ch |-> ch, ctrl |-> ctrl, alt |-> alt, shift |-> shift]

Outcome(a, should_quit, review_toggled) ==
    [app |-> a, should_quit |-> should_quit, review_toggled |-> review_toggled]

Default(a) == Outcome(a, FALSE, None)

handle_keypress(key, fs, a, rows) ==
    LET page_size == Max(get_body_line_count(rows), 1)
        IsChar(c) == key.code = "Char" /\ key.ch = c
    IN  IF key.ctrl /\ (IsChar("c") \/ IsChar("C")) THEN Outcome(a, TRUE, None)
        ELSE IF a.search_input_mode
        THEN Default(
                CASE key.code = "Enter" -> apply_search_input(a, fs, rows)
                  [] key.code = "Esc" -> exit_search_input_mode(a)
                  [] key.code = "Backspace" ->
                        [a EXCEPT !.search_input =
                            SubSeq(a.search_input, 1, saturating_sub(Len(a.search_input), 1))]
                  [] key.code = "Char" /\ ~key.ctrl /\ ~key.alt ->
                        [a EXCEPT !.search_input = Append(a.search_input, key.ch)]
                  [] OTHER -> a)
        ELSE IF IsChar("q") \/ IsChar("Q") THEN Outcome(a, TRUE, None)
        ELSE IF key.code = "Left" THEN
            Default(IF move_file(-1, fs, a).file_index # a.file_index
                    THEN refresh_search_matches_for_current_file(move_file(-1, fs, a), fs)
                    ELSE move_file(-1, fs, a))
        ELSE IF key.code = "Right" THEN
            Default(IF move_file(1, fs, a).file_index # a.file_index
                    THEN refresh_search_matches_for_current_file(move_file(1, fs, a), fs)
                    ELSE move_file(1, fs, a))
        ELSE IF key.code = "Up" THEN Default(move_scroll(-1, fs, a, rows))
        ELSE IF key.code = "Down" THEN Default(move_scroll(1, fs, a, rows))
        ELSE IF IsChar("h") THEN
            Default(IF move_file(-1, fs, a).file_index # a.file_index
                    THEN refresh_search_matches_for_current_file(move_file(-1, fs, a), fs)
                    ELSE move_file(-1, fs, a))
        ELSE IF IsChar("l") THEN
            Default(IF move_file(1, fs, a).file_index # a.file_index
                    THEN refresh_search_matches_for_current_file(move_file(1, fs, a), fs)
                    ELSE move_file(1, fs, a))
        ELSE IF IsChar("k") THEN Default(move_scroll(-1, fs, a, rows))
        ELSE IF IsChar("j") THEN Default(move_scroll(1, fs, a, rows))
        ELSE IF IsChar("u") /\ key.ctrl THEN Default(move_scroll(-page_size, fs, a, rows))
        ELSE IF IsChar("d") /\ key.ctrl THEN Default(move_scroll(page_size, fs, a, rows))
        ELSE IF key.code = "PageUp" THEN Default(move_scroll(-page_size, fs, a, rows))
        ELSE IF key.code = "PageDown" THEN Default(move_scroll(page_size, fs, a, rows))
        ELSE IF key.code = "Home" THEN Default(scroll_to_top(a))
        ELSE IF key.code = "End" THEN Default(scroll_to_bottom(fs, a, rows))
        ELSE IF IsChar("g") /\ key.shift THEN Default(scroll_to_bottom(fs, a, rows))
        ELSE IF IsChar("G") THEN Default(scroll_to_bottom(fs, a, rows))
        ELSE IF IsChar("g") THEN Default(scroll_to_top(a))
        ELSE IF IsChar("/") THEN Default(enter_search_input_mode(a))
        ELSE IF IsChar("n") THEN Default(jump_to_search_match(a, fs, rows, TRUE))
        ELSE IF IsChar("N") THEN Default(jump_to_search_match(a, fs, rows, FALSE))
        ELSE IF IsChar("}") THEN Default(jump_to_hunk(a, fs, rows, TRUE))
        ELSE IF IsChar("{") THEN Default(jump_to_hunk(a, fs, rows, FALSE))
        ELSE IF IsChar("r") THEN
            LET toggled == toggle_current_file_reviewed(a)
            IN  Outcome(toggled, FALSE,
                        Some(<<toggled.file_index, toggled.reviewed_by_file[toggled.file_index + 1]>>))
        ELSE Default(a)

\* MouseEvent: kind, row, column and whether SHIFT is held
handle_mouse(mouse, fs, a, columns, rows) ==
    LET layout == create_frame_layout(columns, rows, MaxLines(fs[a.file_index + 1]))
        hovered_pane == get_pane_for_column(mouse.column, layout)
        horizontal(delta) ==
            IF hovered_pane # <<>>
            THEN move_horizontal(hovered_pane[1], delta, fs, a, columns, rows)
            ELSE a
    IN  IF mouse.row < layout.body_start_row \/ mouse.row > layout.body_end_row THEN a
        ELSE CASE mouse.kind = "ScrollUp" ->
                    IF mouse.shift THEN horizontal(-MOUSE_WHEEL_HORIZONTAL_COLUMNS)
                    ELSE move_scroll(-MOUSE_WHEEL_SCROLL_LINES, fs, a, rows)
               [] mouse.kind = "ScrollDown" ->
                    IF mouse.shift THEN horizontal(MOUSE_WHEEL_HORIZONTAL_COLUMNS)
                    ELSE move_scroll(MOUSE_WHEEL_SCROLL_LINES, fs, a, rows)
               [] mouse.kind = "ScrollLeft" -> horizontal(-MOUSE_WHEEL_HORIZONTAL_COLUMNS)
               [] mouse.kind = "ScrollRight" -> horizontal(MOUSE_WHEEL_HORIZONTAL_COLUMNS)
               [] OTHER -> a

\* draw_app that renders but does not write the clamps back.
draw_app_without_write_back(fs, a, size) == a

\* ---------------------------------------------------------------- terminal.rs
\* The state draw_app leaves: the clamps of render_frame written back.
draw_app(fs, a, size) ==
    LET render_output == render_frame(fs, a.file_index, a.scroll_offset, current_offsets(a),
                                      size.columns, size.rows)
    IN  set_current_offsets(
            [a EXCEPT !.scroll_offset = Min(a.scroll_offset, render_output.max_scroll)],
            render_output.clamped_pane_offsets)

\* ------------------------------------------------------------- the environment
\* Longest search input typed.
MaxInputLen == 1
\* Characters typed while the search input is open.
SearchChars == {"r", "R"}

\* Terminal sizes (u16 columns and rows) a size query may return.
Sizes == {[columns |-> 0, rows |-> 0],
          [columns |-> 13, rows |-> 12],
          [columns |-> 16, rows |-> 11]}
RowCounts == {size.rows : size \in Sizes}

PlainChars == {"q", "Q", "h", "l", "k", "j", "u", "d", "g", "G", "/", "n", "N",
               "}", "{", "r", "a", "R"}
Keys ==
    {Key("Char", c, FALSE, FALSE, FALSE) : c \in PlainChars}
    \cup {Key("Char", c, TRUE, FALSE, FALSE) : c \in {"c", "C", "u", "d", "r"}}
    \cup {Key("Char", "g", FALSE, FALSE, TRUE), Key("Char", "r", FALSE, TRUE, FALSE)}
    \cup {Key(code, "", FALSE, FALSE, FALSE) :
            code \in {"Left", "Right", "Up", "Down", "PageUp", "PageDown", "Home", "End",
                      "Enter", "Esc", "Backspace", "Tab"}}

\* The keys of a review-only session: file changes, the toggle, quit.
ReviewKeys ==
    {Key("Char", c, FALSE, FALSE, FALSE) : c \in {"q", "h", "l", "r", "a"}}
    \cup {Key("Char", "c", TRUE, FALSE, FALSE),
          Key("Left", "", FALSE, FALSE, FALSE), Key("Right", "", FALSE, FALSE, FALSE)}

\* A key that appends to the search input is typed from SearchChars, up to MaxInputLen.
KeyOffered(key, a) ==
    (a.search_input_mode /\ key.code = "Char" /\ ~key.ctrl /\ ~key.alt)
        => (key.ch \in SearchChars /\ Len(a.search_input) < MaxInputLen)

MouseEvents ==
    [kind : {"ScrollUp", "ScrollDown", "ScrollLeft", "ScrollRight", "Moved"},
     shift : BOOLEAN, row : {5, 8}, column : {2, 8, 13}]

\* What the review file holds before the first session: nothing, or a file
\* left by hand with one fingerprint of no file of the comparison.
NoFile == [exists |-> FALSE, text |-> <<>>]
HandWritten == [exists |-> TRUE, text |-> <<" ", "f", "\n", " ", "\n">>]

\* fs::read_to_string of the review file, NotFound giving the empty set
ReadReviewed(d) == IF d.exists THEN parse_reviewed_hashes(d.text) ELSE {}

\* fs::read_to_string of the review file: NotFound when there is none, and
\* when there is one its text, or another error when the read fails.
read_to_string(d, failing) ==
    IF ~d.exists THEN [ok |-> FALSE, kind |-> "NotFound", raw |-> <<>>]
    ELSE IF failing THEN [ok |-> FALSE, kind |-> "Other", raw |-> <<>>]
    ELSE [ok |-> TRUE, kind |-> "", raw |-> d.text]

\* A load that returns every read error, NotFound too.
ReviewStore_load_strict(d, failing) ==
    LET read == read_to_string(d, failing)
    IN  IF read.ok
        THEN [ok |-> TRUE, reviewed_hashes |-> parse_reviewed_hashes(read.raw)]
        ELSE [ok |-> FALSE, reviewed_hashes |-> {}]

\* ReviewStore::load: Ok with the reviewed set, or the error
ReviewStore_load(d, failing) ==
    LET read == read_to_string(d, failing)
    IN  IF read.ok
        THEN [ok |-> TRUE, reviewed_hashes |-> parse_reviewed_hashes(read.raw)]
        ELSE IF read.kind = "NotFound"
        THEN [ok |-> TRUE, reviewed_hashes |-> {}]
        ELSE [ok |-> FALSE, reviewed_hashes |-> {}]

NoApp == AppState_new(0, <<>>)
NoSize == [columns |-> 0, rows |-> 0]
NoCall == <<>>

VARIABLES
    pc,                \* where the process is: idle (no process), loaded, read,
                       \* persist, write, paint, restore
    snapshot,          \* the content state the session's file views were built from
    app,               \* AppState, a local of run_event_loop
    reviewed_hashes,   \* ReviewStore.reviewed_hashes
    disk,              \* the review file of the comparison scope
    painted,           \* the terminal size the last draw_app used
    run_result,        \* the result of run_event_loop: none, ok, err
    restore_attempted, \* start_interactive_review reached the terminal restoration
    exit_status,       \* how the last process ended: none, success, failure, killed
    call_args,         \* the arguments of the function a function-level
                       \* specification applies; NoCall in a session
    call_result        \* what that function returned

vars == <<pc, snapshot, app, reviewed_hashes, disk, painted, run_result,
          restore_attempted, exit_status, call_args, call_result>>

\* The variables of the function-level specifications.
call == <<call_args, call_result>>
session == <<pc, snapshot, app, reviewed_hashes, disk, painted, run_result,
             restore_attempted, exit_status>>

files == FileViews[snapshot]

SessionInit(disks) ==
    /\ pc = "idle"
    /\ snapshot = 1
    /\ app = NoApp
    /\ reviewed_hashes = {}
    /\ disk \in disks
    /\ painted = NoSize
    /\ run_result = "none"
    /\ restore_attempted = FALSE
    /\ exit_status = "none"

InitWith(disks) ==
    /\ SessionInit(disks)
    /\ call_args = NoCall
    /\ call_result = NoCall

\* run_event_loop has returned: its AppState is dropped.
LoopLeft(result) ==
    /\ pc' = "restore"
    /\ run_result' = result
    /\ app' = NoApp
    /\ painted' = NoSize

\* The process is gone, and its memory with it.
ProcessGone ==
    /\ pc' = "idle"
    /\ app' = NoApp
    /\ reviewed_hashes' = {}
    /\ painted' = NoSize

\* run: the file views are built and ReviewStore::load reads the review file.
RunOn(snapshots) ==
    /\ pc = "idle"
    /\ snapshot' \in snapshots
    /\ \E failing \in BOOLEAN :
        /\ ReviewStore_load(disk, failing).ok
        /\ reviewed_hashes' = ReviewStore_load(disk, failing).reviewed_hashes
    /\ pc' = "loaded"
    /\ run_result' = "none"
    /\ restore_attempted' = FALSE
    /\ exit_status' = "none"
    /\ UNCHANGED <<app, disk, painted>>
    /\ UNCHANGED call

\* ReviewStore::load returns an error: run returns it.
RunLoadFails ==
    /\ pc = "idle"
    /\ \E failing \in BOOLEAN : ~ReviewStore_load(disk, failing).ok
    /\ run_result' = "none"
    /\ restore_attempted' = FALSE
    /\ exit_status' = "failure"
    /\ UNCHANGED <<pc, snapshot, app, reviewed_hashes, disk, painted>>
    /\ UNCHANGED call

\* run_event_loop up to the loop: the initial flags, AppState::new, the first draw.
Begin ==
    /\ pc = "loaded"
    /\ \E size \in Sizes :
        /\ app' = draw_app(files,
                           AppState_new(Len(files),
                                        reviewed_flags_for_files(reviewed_hashes, files)),
                           size)
        /\ painted' = size
    /\ pc' = "read"
    /\ UNCHANGED <<snapshot, reviewed_hashes, disk, run_result, restore_attempted, exit_status>>
    /\ UNCHANGED call

\* A loop that paints after a toggle without persisting first.
AfterKey_paints_first(out) ==
    /\ app' = out.app
    /\ reviewed_hashes' =
            IF out.review_toggled # None
            THEN set_reviewed(reviewed_hashes,
                              files[out.review_toggled[1][1] + 1].review_key,
                              out.review_toggled[1][2])
            ELSE reviewed_hashes
    /\ pc' = "paint"
    /\ UNCHANGED <<painted, run_result>>

\* After handle_keypress: set_reviewed on a toggle, break on quit, else the paint.
AfterKey(out) ==
    IF out.review_toggled # None
    THEN /\ app' = out.app
         /\ reviewed_hashes' = set_reviewed(reviewed_hashes,
                                            files[out.review_toggled[1][1] + 1].review_key,
                                            out.review_toggled[1][2])
         /\ pc' = "persist"
         /\ UNCHANGED <<painted, run_result>>
    ELSE IF out.should_quit
    THEN /\ LoopLeft("ok")
         /\ UNCHANGED reviewed_hashes
    ELSE /\ app' = out.app
         /\ pc' = "paint"
         /\ UNCHANGED <<reviewed_hashes, painted, run_result>>

\* Event::Key, pressed or repeated
KeyPressOf(keys) ==
    /\ pc = "read"
    /\ \E key \in keys, rows \in RowCounts :
        /\ KeyOffered(key, app)
        /\ AfterKey(handle_keypress(key, files, app, rows))
    /\ UNCHANGED <<snapshot, disk, restore_attempted, exit_status>>
    /\ UNCHANGED call

\* Event::Key of another kind (a release): continue, without a paint
KeyRelease ==
    /\ pc = "read"
    /\ UNCHANGED vars

\* Event::Mouse
\* A loop that reads the next event right after handle_mouse, without the paint.
Mouse_unpainted ==
    /\ pc = "read"
    /\ \E mouse \in MouseEvents, size \in Sizes :
        app' = handle_mouse(mouse, files, app, size.columns, size.rows)
    /\ pc' = "read"
    /\ UNCHANGED <<snapshot, reviewed_hashes, disk, painted, run_result, restore_attempted,
                   exit_status>>
    /\ UNCHANGED call

Mouse ==
    /\ pc = "read"
    /\ \E mouse \in MouseEvents, size \in Sizes :
        app' = handle_mouse(mouse, files, app, size.columns, size.rows)
    /\ pc' = "paint"
    /\ UNCHANGED <<snapshot, reviewed_hashes, disk, painted, run_result, restore_attempted,
                   exit_status>>
    /\ UNCHANGED call

\* Event::Resize, FocusGained, FocusLost, Paste
OtherEvent ==
    /\ pc = "read"
    /\ pc' = "paint"
    /\ UNCHANGED <<snapshot, app, reviewed_hashes, disk, painted, run_result,
                   restore_attempted, exit_status>>
    /\ UNCHANGED call

\* persist, first half: fs::write creates the file, which empties it.
PersistCreate ==
    /\ pc = "persist"
    /\ disk' = [exists |-> TRUE, text |-> <<>>]
    /\ pc' = "write"
    /\ UNCHANGED <<snapshot, app, reviewed_hashes, painted, run_result, restore_attempted,
                   exit_status>>
    /\ UNCHANGED call

\* create_dir_all or the creation of the file fails: persist()? leaves the loop.
PersistCreateFails ==
    /\ pc = "persist"
    /\ LoopLeft("err")
    /\ UNCHANGED <<snapshot, reviewed_hashes, disk, restore_attempted, exit_status>>
    /\ UNCHANGED call

\* persist, second half: fs::write writes the whole output; the loop goes on
\* to the paint (the outcome of a toggle never quits).
PersistWrite ==
    /\ pc = "write"
    /\ disk' = [exists |-> TRUE, text |-> PersistOutput(reviewed_hashes)]
    /\ pc' = "paint"
    /\ UNCHANGED <<snapshot, app, reviewed_hashes, painted, run_result, restore_attempted,
                   exit_status>>
    /\ UNCHANGED call

\* A failed write whose error is dropped: the loop goes on to the paint.
PersistWriteIgnored ==
    /\ pc = "write"
    /\ \E n \in 0..Cardinality(reviewed_hashes) :
        disk' = [exists |-> TRUE,
                 text |-> PersistOutput({SortedEntries(reviewed_hashes)[i] : i \in 1..n})]
    /\ pc' = "paint"
    /\ UNCHANGED <<snapshot, app, reviewed_hashes, painted, run_result, restore_attempted,
                   exit_status>>
    /\ UNCHANGED call

\* The write fails after some of the lines: persist()? leaves the loop.
PersistWriteFails ==
    /\ pc = "write"
    /\ \E n \in 0..Cardinality(reviewed_hashes) :
        disk' = [exists |-> TRUE,
                 text |-> PersistOutput({SortedEntries(reviewed_hashes)[i] : i \in 1..n})]
    /\ LoopLeft("err")
    /\ UNCHANGED <<snapshot, reviewed_hashes, restore_attempted, exit_status>>
    /\ UNCHANGED call

\* draw_app at the end of the loop body
Paint ==
    /\ pc = "paint"
    /\ \E size \in Sizes :
        /\ app' = draw_app(files, app, size)
        /\ painted' = size
    /\ pc' = "read"
    /\ UNCHANGED <<snapshot, reviewed_hashes, disk, run_result, restore_attempted, exit_status>>
    /\ UNCHANGED call

\* event::read, a size query or a draw fails: the ? operator leaves the loop.
TerminalFails ==
    /\ pc \in {"loaded", "read", "paint"}
    /\ LoopLeft("err")
    /\ UNCHANGED <<snapshot, reviewed_hashes, disk, restore_attempted, exit_status>>
    /\ UNCHANGED call

\* start_interactive_review after run_event_loop: the terminal is restored,
\* a failure of that or else run_result is returned, and the process exits.
Restore ==
    /\ pc = "restore"
    /\ restore_attempted' = TRUE
    /\ \E restored \in BOOLEAN :
        exit_status' = IF restored /\ run_result = "ok" THEN "success" ELSE "failure"
    /\ ProcessGone
    /\ UNCHANGED <<snapshot, disk, run_result>>
    /\ UNCHANGED call

\* The process is interrupted (killed) wherever it is.
Interrupt ==
    /\ pc # "idle"
    /\ exit_status' = "killed"
    /\ ProcessGone
    /\ UNCHANGED <<snapshot, disk, run_result, restore_attempted>>
    /\ UNCHANGED call

\* ------------------------------------------------------------ specifications
\* Spec: every key and mouse event, over one content state and a review file
\* that starts absent.
Init == InitWith({NoFile})
Run == RunOn({1})
KeyPress == KeyPressOf(Keys)

Next ==
    \/ Run
    \/ RunLoadFails
    \/ Begin
    \/ KeyPress
    \/ KeyRelease
    \/ Mouse
    \/ OtherEvent
    \/ PersistCreate
    \/ PersistCreateFails
    \/ PersistWrite
    \/ PersistWriteFails
    \/ Paint
    \/ TerminalFails
    \/ Restore
    \/ Interrupt

Spec == Init /\ [][Next]_vars

\* ReviewSpec: sessions over both content states and both initial review
\* files, with the keys that change files, toggle and quit.
ReviewInit == InitWith({NoFile, HandWritten})
SessionRun == RunOn(1..Len(Snapshots))
ReviewKeyPress == KeyPressOf(ReviewKeys)

ReviewNext ==
    \/ SessionRun
    \/ RunLoadFails
    \/ Begin
    \/ ReviewKeyPress
    \/ KeyRelease
    \/ OtherEvent
    \/ PersistCreate
    \/ PersistCreateFails
    \/ PersistWrite
    \/ PersistWriteFails
    \/ Paint
    \/ TerminalFails
    \/ Restore
    \/ Interrupt

ReviewSpec == ReviewInit /\ [][ReviewNext]_vars

\* ------------------------------------------------- KeySpec: compute_review_key
\* The function is applied to one file of a comparison after another: each
\* step changes one thing about the file and computes the key again.
KeyStatuses == {<<"M">>, <<"A">>}
KeyPaths == {<<"x">>, <<"y">>}
KeyLines == {<<"a">>, <<"r">>}
KeySources == {"Commit", "WorkingTree"}
\* Most lines of a pane, and most changes made to the first file.
MaxKeyLines == 2
MaxKeyChanges == 4

\* The file the function is first applied to, in run 1 of the program.
KeyBase ==
    [descriptor |-> [raw_status |-> <<"M">>, display_path |-> <<"x">>,
                     base_path |-> Some(<<"x">>), head_path |-> Some(<<"x">>),
                     base_source |-> "Commit", head_source |-> "Commit"],
     left_lines |-> << <<"a">>, <<"r">> >>,
     right_lines |-> << <<"a">> >>,
     left_deleted_line_indexes |-> {},
     left_language |-> None,
     run |-> 1,
     changes |-> 0]

KeyOf(args) == compute_review_key(args.descriptor, args.left_lines, args.right_lines)

KeyInit ==
    /\ SessionInit({NoFile})
    /\ call_args = KeyBase
    /\ call_result = KeyOf(KeyBase)

\* The function is applied to `args`.
KeyApply(args) ==
    /\ call_args # NoCall
    /\ call_args.changes < MaxKeyChanges
    /\ call_args' = [args EXCEPT !.changes = call_args.changes + 1]
    /\ call_result' = KeyOf(args)
    /\ UNCHANGED session

KeyChangeStatus ==
    \E status \in KeyStatuses \ {call_args.descriptor.raw_status} :
        KeyApply([call_args EXCEPT !.descriptor.raw_status = status])

KeyChangeDisplayPath ==
    \E path \in KeyPaths \ {call_args.descriptor.display_path} :
        KeyApply([call_args EXCEPT !.descriptor.display_path = path])

KeyChangeBasePath ==
    \E path \in ({None} \cup {Some(q) : q \in KeyPaths}) \ {call_args.descriptor.base_path} :
        KeyApply([call_args EXCEPT !.descriptor.base_path = path])

KeyChangeHeadPath ==
    \E path \in ({None} \cup {Some(q) : q \in KeyPaths}) \ {call_args.descriptor.head_path} :
        KeyApply([call_args EXCEPT !.descriptor.head_path = path])

KeyChangeLeftLine ==
    \E i \in 1..Len(call_args.left_lines), line \in KeyLines :
        /\ line # call_args.left_lines[i]
        /\ KeyApply([call_args EXCEPT !.left_lines[i] = line])

KeyChangeRightLine ==
    \E i \in 1..Len(call_args.right_lines), line \in KeyLines :
        /\ line # call_args.right_lines[i]
        /\ KeyApply([call_args EXCEPT !.right_lines[i] = line])

\* Two different neighbouring lines of a pane change places.
KeySwapLines ==
    \E side \in {"left_lines", "right_lines"} :
        LET lines == call_args[side]
        IN  /\ Len(lines) = 2
            /\ lines[1] # lines[2]
            /\ KeyApply([call_args EXCEPT ![side] = <<lines[2], lines[1]>>])

\* The last line of one pane becomes the last line of the other.
KeyMoveLine ==
    \E from \in {"left_lines", "right_lines"} :
        LET to == IF from = "left_lines" THEN "right_lines" ELSE "left_lines"
        IN  /\ Len(call_args[from]) > 1
            /\ Len(call_args[to]) < MaxKeyLines
            /\ KeyApply([call_args EXCEPT
                    ![from] = SubSeq(call_args[from], 1, Len(call_args[from]) - 1),
                    ![to] = Append(call_args[to], call_args[from][Len(call_args[from])])])

\* What the key is not computed from: where the content was read, the
\* highlight set, the detected language, the run of the program.
KeyChangeSource ==
    \E side \in {"base_source", "head_source"} :
        \E source \in KeySources \ {call_args.descriptor[side]} :
            KeyApply([call_args EXCEPT !.descriptor[side] = source])

KeyChangeHighlights ==
    \E indexes \in {{}, {0}} \ {call_args.left_deleted_line_indexes} :
        KeyApply([call_args EXCEPT !.left_deleted_line_indexes = indexes])

KeyChangeLanguage ==
    \E language \in {None, Some(<<"r">>)} \ {call_args.left_language} :
        KeyApply([call_args EXCEPT !.left_language = language])

KeyNewRun ==
    \E run \in {1, 2} \ {call_args.run} :
        KeyApply([call_args EXCEPT !.run = run])

KeyNext ==
    \/ KeyChangeStatus
    \/ KeyChangeDisplayPath
    \/ KeyChangeBasePath
    \/ KeyChangeHeadPath
    \/ KeyChangeLeftLine
    \/ KeyChangeRightLine
    \/ KeySwapLines
    \/ KeyMoveLine
    \/ KeyChangeSource
    \/ KeyChangeHighlights
    \/ KeyChangeLanguage
    \/ KeyNewRun

KeySpec == KeyInit /\ [][KeyNext]_vars

\* ------------------------------ StoreSpec: persist_reviewed_hashes and parse
\* A set is persisted, the written text or a text edited by hand is parsed,
\* and what was parsed is persisted again.
StoreEntries == {<<"a">>, <<"b">>, <<"a", "b">>}
StoreChars == {"a", " ", "\n", "\r"}
\* Longest text written by hand.
MaxRawLen == 4

\* The sequences over `chars` of length n.
RECURSIVE TextsOfLen(_, _)
TextsOfLen(chars, n) ==
    IF n = 0 THEN {<<>>}
    ELSE {Append(text, c) : text \in TextsOfLen(chars, n - 1), c \in chars}

StoreTexts == UNION {TextsOfLen(StoreChars, n) : n \in 0..MaxRawLen}

StoreInit ==
    /\ SessionInit({NoFile})
    /\ call_args = [op |-> "persist", reviewed_hashes |-> {}, raw |-> <<>>]
    /\ call_result = PersistOutput({})

\* persist_reviewed_hashes on a set of entries, or on the set parsed last
StorePersist ==
    /\ call_args # NoCall
    /\ \E hashes \in (SUBSET StoreEntries)
                        \cup (IF call_args.op = "parse" THEN {call_result} ELSE {}) :
        /\ call_args' = [op |-> "persist", reviewed_hashes |-> hashes, raw |-> <<>>]
        /\ call_result' = PersistOutput(hashes)
    /\ UNCHANGED session

\* parse_reviewed_hashes on the text just written
StoreParseWritten ==
    /\ call_args # NoCall
    /\ call_args.op = "persist"
    /\ call_args' = [call_args EXCEPT !.op = "parse", !.raw = call_result]
    /\ call_result' = parse_reviewed_hashes(call_result)
    /\ UNCHANGED session

\* parse_reviewed_hashes on a text written by hand
StoreParseEdited ==
    /\ call_args # NoCall
    /\ \E raw \in StoreTexts :
        /\ call_args' = [op |-> "parse", reviewed_hashes |-> {}, raw |-> raw]
        /\ call_result' = parse_reviewed_hashes(raw)
    /\ UNCHANGED session

StoreNext ==
    \/ StorePersist
    \/ StoreParseWritten
    \/ StoreParseEdited

StoreSpec == StoreInit /\ [][StoreNext]_vars

\* ------------------------------------- ScopeSpec: the review file of a scope
\* Display for StrategyId
StrategyIdString(strategy_id) ==
    IF strategy_id = "UpstreamAhead"
    THEN <<"u", "p", "s", "t", "r", "e", "a", "m", "-", "a", "h", "e", "a", "d">>
    ELSE <<"r", "a", "n", "g", "e">>

UNCOMMITTED == <<"u", "n", "c", "o", "m", "m", "i", "t", "t", "e", "d">>
COMMITTED == <<"c", "o", "m", "m", "i", "t", "t", "e", "d">>

\* A scope key that leaves the includes_uncommitted flag out.
comparison_scope_key_without_flag(comparison) ==
    finish_hex(
        write_str(
            write_str(
                write_str(FNV_OFFSET_BASIS, StrategyIdString(comparison.strategy_id)),
                comparison.base_ref),
            comparison.head_ref))

comparison_scope_key(comparison) ==
    finish_hex(
        write_str(
            write_str(
                write_str(
                    write_str(FNV_OFFSET_BASIS, StrategyIdString(comparison.strategy_id)),
                    comparison.base_ref),
                comparison.head_ref),
            IF comparison.includes_uncommitted THEN UNCOMMITTED ELSE COMMITTED))

\* "{scope_key}.txt" under <git dir>/deff/reviewed
review_path(comparison) == comparison_scope_key(comparison) \o <<".", "t", "x", "t">>

ScopeRefs == {<<"a">>, <<"a", "b">>}
ScopeCommits == {<<"c">>, <<"d">>}
ScopeComparisons ==
    [strategy_id : {"UpstreamAhead", "Range"},
     base_ref : ScopeRefs,
     head_ref : ScopeRefs,
     base_commit : ScopeCommits,
     head_commit : {<<"d">>},
     includes_uncommitted : BOOLEAN]
\* The review file each comparison loads and writes, as a table.
ScopePaths == [comparison \in ScopeComparisons |-> review_path(comparison)] @@ <<>>
\* Most toggles over the sessions.
MaxScopeToggles == 2
ScopeReviewKey == <<"x">>

ScopeInit ==
    /\ SessionInit({NoFile})
    /\ \E comparison \in ScopeComparisons :
        /\ call_args = [comparison |-> comparison,
                        review_files |-> [path \in {ScopePaths[c] : c \in ScopeComparisons} |-> {}],
                        toggles |-> 0]
        /\ call_result = ScopePaths[comparison]

\* ReviewStore::load of another comparison: its path is the store's path.
ScopeLoad ==
    /\ call_args # NoCall
    /\ \E comparison \in ScopeComparisons \ {call_args.comparison} :
        /\ call_args' = [call_args EXCEPT !.comparison = comparison]
        /\ call_result' = ScopePaths[comparison]
    /\ UNCHANGED session

\* A toggle of the session: set_reviewed and persist to the store's path.
ScopeToggle ==
    /\ call_args # NoCall
    /\ call_args.toggles < MaxScopeToggles
    /\ LET stored == call_args.review_files[call_result]
           reviewed == ScopeReviewKey \notin stored
       IN  call_args' = [call_args EXCEPT
                            !.review_files[call_result] = set_reviewed(stored, ScopeReviewKey, reviewed),
                            !.toggles = @ + 1]
    /\ UNCHANGED <<call_result, session>>

ScopeNext ==
    \/ ScopeLoad
    \/ ScopeToggle

ScopeSpec == ScopeInit /\ [][ScopeNext]_vars

\* ------------------- SearchSpec: the match list of a file and its cursor
\* A file and a query are drawn, the file's panes are searched for the query,
\* and the cursor is moved over the list that was found.
SearchLines == {<<"a">>, <<"a", "r">>, <<"A">>}
SearchQueries == {<<>>, <<"a">>, <<"r">>, <<"a", "r">>, <<"A">>}
\* Most lines of a pane.
MaxSearchLines == 3
SearchLineLists == UNION {[1..n -> SearchLines] : n \in 1..MaxSearchLines}

SearchInit ==
    /\ SessionInit({NoFile})
    /\ \E left_lines, right_lines \in SearchLineLists, query \in SearchQueries :
        call_args = [op |-> "input",
                     file |-> [left_lines |-> left_lines, right_lines |-> right_lines],
                     query |-> query, matches |-> <<>>,
                     current_match_index |-> None, forward |-> TRUE]
    /\ call_result = NoCall

\* build_search_match_line_indexes on the file and the query
SearchBuild ==
    /\ call_args # NoCall
    /\ call_args.op = "input"
    /\ LET matches == build_search_match_line_indexes(call_args.file, call_args.query)
       IN  /\ call_args' = [call_args EXCEPT !.op = "build", !.matches = matches]
           /\ call_result' = matches
    /\ UNCHANGED session

\* next_match_index over the list that was found, from no cursor or a cursor
SearchMove ==
    /\ call_args # NoCall
    /\ call_args.op = "build"
    /\ LET match_count == Len(call_args.matches)
       IN  \E current \in {None} \cup {Some(i) : i \in 0..(match_count - 1)},
              forward \in BOOLEAN :
               /\ call_args' = [call_args EXCEPT !.op = "next",
                                                 !.current_match_index = current,
                                                 !.forward = forward]
               /\ call_result' = next_match_index(match_count, current, forward)
    /\ UNCHANGED session

SearchNext ==
    \/ SearchBuild
    \/ SearchMove

SearchSpec == SearchInit /\ [][SearchNext]_vars

\* ------------------------ HunkSpec: the hunk starts of a file and the jumps
\* A pair of highlight sets is drawn, the hunk starts are derived, and a jump
\* is made from a scroll offset at a terminal height.
\* Highest line index of the enumerated highlight sets.
MaxHunkLine == 4
HunkIndexSets == (SUBSET (0..MaxHunkLine)) \cup {{4, 5, 6, 9}, {4, 5}, {6, 9}}
HunkLeftLines == [i \in 1..10 |-> <<"a">>]
HunkRightLines == [i \in 1..7 |-> <<"a">>]

HunkInit ==
    /\ SessionInit({NoFile})
    /\ \E deleted, added \in HunkIndexSets :
        call_args = [op |-> "input",
                     file |-> [left_lines |-> HunkLeftLines,
                               right_lines |-> HunkRightLines,
                               left_deleted_line_indexes |-> deleted,
                               right_added_line_indexes |-> added],
                     app |-> NoApp, rows |-> 0, forward |-> TRUE]
    /\ call_result = NoCall

\* build_hunk_start_lines on the file
HunkBuild ==
    /\ call_args # NoCall
    /\ call_args.op = "input"
    /\ call_args' = [call_args EXCEPT !.op = "build"]
    /\ call_result' = build_hunk_start_lines(call_args.file)
    /\ UNCHANGED session

\* AppState::jump_to_hunk on the file, from a scroll offset
HunkJump ==
    /\ call_args # NoCall
    /\ call_args.op = "build"
    /\ \E scroll_offset \in 0..saturating_sub(Len(HunkLeftLines), MIN_BODY_LINE_COUNT),
          rows \in RowCounts, forward \in BOOLEAN :
        LET a == [AppState_new(1, <<FALSE>>) EXCEPT !.scroll_offset = scroll_offset]
        IN  /\ call_args' = [call_args EXCEPT !.op = "jump", !.app = a,
                                              !.rows = rows, !.forward = forward]
            /\ call_result' = jump_to_hunk(a, <<call_args.file>>, rows, forward)
    /\ UNCHANGED session

HunkNext ==
    \/ HunkBuild
    \/ HunkJump

HunkSpec == HunkInit /\ [][HunkNext]_vars

\* ---------------------- PatchSpec: the highlight sets of a unified-0 patch
IsDigit(c) == c \in {"0", "1", "2", "3", "4", "5", "6", "7", "8", "9"}

\* \d+ at the start of a text: the longest run of digits
RECURSIVE TakeDigits(_)
TakeDigits(text) ==
    IF text # <<>> /\ IsDigit(Head(text)) THEN <<Head(text)>> \o TakeDigits(Tail(text))
    ELSE <<>>

Drop(text, count) == SubSeq(text, count + 1, Len(text))

StartsWith(text, prefix) ==
    Len(text) >= Len(prefix) /\ SubSeq(text, 1, Len(prefix)) = prefix

\* str::parse::<usize> on a run of digits
RECURSIVE parse_usize(_)
parse_usize(digits) ==
    IF digits = <<>> THEN 0
    ELSE 10 * parse_usize(SubSeq(digits, 1, Len(digits) - 1))
            + (ByteOf(digits[Len(digits)]) - 48)

\* (\d+)(?:,(\d+))? at the start of a text: the number, the optional count,
\* and what follows; None when no digit starts the text.
NumberAndCount(text) ==
    LET number == TakeDigits(text)
        after == Drop(text, Len(number))
        count == IF StartsWith(after, <<",">>) THEN TakeDigits(Drop(after, 1)) ELSE <<>>
    IN  IF number = <<>> THEN None
        ELSE IF count = <<>> THEN Some([number |-> number, count |-> None, rest |-> after])
        ELSE Some([number |-> number, count |-> Some(count),
                   rest |-> Drop(after, 1 + Len(count))])

\* HUNK_HEADER_RE.captures(line): ^@@ -(\d+)(?:,(\d+))? \+(\d+)(?:,(\d+))? @@
HUNK_HEADER_RE(line) ==
    IF ~StartsWith(line, <<"@", "@", " ", "-">>) THEN None
    ELSE LET old == NumberAndCount(Drop(line, 4))
         IN  IF old = None \/ ~StartsWith(old[1].rest, <<" ", "+">>) THEN None
             ELSE LET new == NumberAndCount(Drop(old[1].rest, 2))
                  IN  IF new = None \/ ~StartsWith(new[1].rest, <<" ", "@", "@">>) THEN None
                      ELSE Some(<<old[1].number, old[1].count, new[1].number, new[1].count>>)

\* A count that reads an explicit 0 as the missing count.
parse_hunk_count_at_least_one(value) ==
    IF value = None THEN 1 ELSE Max(parse_usize(value[1]), 1)

parse_hunk_count(value) ==
    IF value = None THEN 1 ELSE parse_usize(value[1])

\* The indexes one side of a header marks.
HunkRange(start, count) ==
    {saturating_sub(parse_usize(start), 1) + offset : offset \in 0..(parse_hunk_count(count) - 1)}

parse_line_highlights_from_patch(diff_output) ==
    LET lines == Lines(diff_output)
        headers == {HUNK_HEADER_RE(lines[i]) : i \in 1..Len(lines)} \ {None}
    IN  [left_deleted_line_indexes |-> UNION {HunkRange(h[1][1], h[1][2]) : h \in headers},
         right_added_line_indexes |-> UNION {HunkRange(h[1][3], h[1][4]) : h \in headers}]

\* The decimal text of a number below 100, as git writes it.
DecimalText(n) ==
    IF n < 10 THEN <<HexDigit(n)>> ELSE <<HexDigit(n \div 10), HexDigit(n % 10)>>

HeaderSide(sign, start, count) ==
    <<sign>> \o DecimalText(start)
        \o (IF count = None THEN <<>> ELSE <<",">> \o DecimalText(count[1]))

\* A hunk header line with its numbers, and the text that follows it.
HeaderLine(old_start, old_count, new_start, new_count, trailer) ==
    [header |-> TRUE,
     old_start |-> old_start, old_count |-> old_count,
     new_start |-> new_start, new_count |-> new_count,
     line |-> <<"@", "@", " ">> \o HeaderSide("-", old_start, old_count) \o <<" ">>
                \o HeaderSide("+", new_start, new_count) \o <<" ", "@", "@">> \o trailer]

\* A line of a patch that is no hunk header.
OtherLine(line) ==
    [header |-> FALSE, old_start |-> 0, old_count |-> None,
     new_start |-> 0, new_count |-> None, line |-> line]

PatchLines ==
    {HeaderLine(old_start, old_count, new_start, new_count, <<>>) :
        old_start \in {0, 2, 12}, old_count \in {None, Some(0), Some(2)},
        new_start \in {0, 5}, new_count \in {None, Some(0), Some(3)}}
    \cup {HeaderLine(2, Some(2), 5, Some(3), <<" ", "a">>)}
    \cup {OtherLine(line) :
            line \in {<<"-", "a">>,
                      <<"@", "@", " ", "-", "2", ",", "2", " ", "+", "5", ",", "3">>,
                      <<" ", "@", "@", " ", "-", "2", " ", "+", "5", " ", "@", "@">>,
                      <<"@", "@", " ", "-", ",", "2", " ", "+", "5", " ", "@", "@">>,
                      <<"@", "@", " ", "-", "2", ",", " ", "+", "5", " ", "@", "@">>,
                      <<"@", "@", " ", "-", "2", " ", "5", " ", "@", "@">>}}

\* Most lines of a patch.
MaxPatchLines == 2
Patches == UNION {[1..n -> PatchLines] : n \in 0..MaxPatchLines}

\* The text of a patch: every line ends with a line feed.
RECURSIVE PatchText(_)
PatchText(patch) ==
    IF patch = <<>> THEN <<>> ELSE Head(patch).line \o <<"\n">> \o PatchText(Tail(patch))

PatchInit ==
    /\ SessionInit({NoFile})
    /\ \E patch \in Patches :
        call_args = [op |-> "input", patch |-> patch, diff_output |-> PatchText(patch)]
    /\ call_result = NoCall

\* parse_line_highlights_from_patch on the text of the patch
PatchParse ==
    /\ call_args # NoCall
    /\ call_args.op = "input"
    /\ call_args' = [call_args EXCEPT !.op = "parse"]
    /\ call_result' = parse_line_highlights_from_patch(call_args.diff_output)
    /\ UNCHANGED session

PatchNext == PatchParse

PatchSpec == PatchInit /\ [][PatchNext]_vars

\* ------------------ ViewSpec: the file views built from what git delivers
MISSING_LEFT ==
    <<"<", "f", "i", "l", "e", " ", "d", "o", "e", "s", " ", "n", "o", "t", " ", "e", "x",
      "i", "s", "t", " ", "i", "n", " ", "b", "a", "s", "e", " ", "r", "e", "v", "i", "s",
      "i", "o", "n", ">">>

MISSING_RIGHT ==
    <<"<", "f", "i", "l", "e", " ", "d", "o", "e", "s", " ", "n", "o", "t", " ", "e", "x",
      "i", "s", "t", " ", "i", "n", " ", "t", "a", "r", "g", "e", "t", " ", "r", "e", "v",
      "i", "s", "i", "o", "n", ">">>

create_empty_line_highlights ==
    [left_deleted_line_indexes |-> {}, right_added_line_indexes |-> {}]

create_range_line_indexes(line_count) == 0..(line_count - 1)

\* Highlights that read the patch before looking at the sources.
get_line_highlights_for_descriptor_patch_first(descriptor, left_line_count, right_line_count, diff) ==
    IF diff.ok /\ diff.output # <<>>
    THEN parse_line_highlights_from_patch(diff.output)
    ELSE IF descriptor.base_source = "Missing"
    THEN [left_deleted_line_indexes |-> {},
          right_added_line_indexes |-> create_range_line_indexes(right_line_count)]
    ELSE IF descriptor.head_source = "Missing"
    THEN [left_deleted_line_indexes |-> create_range_line_indexes(left_line_count),
          right_added_line_indexes |-> {}]
    ELSE create_empty_line_highlights

\* `diff` is what run_git_text returns for the file's patch: Ok(output) or Err.
get_line_highlights_for_descriptor(descriptor, left_line_count, right_line_count, diff) ==
    IF descriptor.base_source = "Missing"
    THEN [left_deleted_line_indexes |-> {},
          right_added_line_indexes |-> create_range_line_indexes(right_line_count)]
    ELSE IF descriptor.head_source = "Missing"
    THEN [left_deleted_line_indexes |-> create_range_line_indexes(left_line_count),
          right_added_line_indexes |-> {}]
    ELSE IF descriptor.base_path = None \/ descriptor.head_path = None
    THEN create_empty_line_highlights
    ELSE IF ~diff.ok THEN create_empty_line_highlights
    ELSE parse_line_highlights_from_patch(diff.output)

\* The lines of one side: the placeholder when the side is missing, else what
\* read_lines_at_revision or read_lines_at_working_tree returns.
SideLines(source, path, content, missing) ==
    IF source = "Missing" \/ path = None THEN <<missing>> ELSE content

\* One iteration of build_file_views; `given` is a descriptor with what git
\* delivers for it: both sides' content and the result of the patch command.
ViewOf(given) ==
    LET left_lines == SideLines(given.descriptor.base_source, given.descriptor.base_path,
                                given.left_content, MISSING_LEFT)
        right_lines == SideLines(given.descriptor.head_source, given.descriptor.head_path,
                                 given.right_content, MISSING_RIGHT)
        line_highlights == get_line_highlights_for_descriptor(
                                given.descriptor, Len(left_lines), Len(right_lines), given.diff)
    IN  build_file_view([descriptor |-> given.descriptor,
                         left_lines |-> left_lines,
                         right_lines |-> right_lines,
                         left_deleted_line_indexes |-> line_highlights.left_deleted_line_indexes,
                         right_added_line_indexes |-> line_highlights.right_added_line_indexes])

\* File views that end at the first file whose patch could not be obtained.
RECURSIVE build_file_views_stopping(_)
build_file_views_stopping(givens) ==
    IF givens = <<>> THEN <<>>
    ELSE IF ~Head(givens).diff.ok /\ Head(givens).descriptor.base_source # "Missing"
            /\ Head(givens).descriptor.head_source # "Missing"
    THEN <<>>
    ELSE <<ViewOf(Head(givens))>> \o build_file_views_stopping(Tail(givens))

\* build_file_views over descriptors and what git delivers for each
build_file_views_from_git(givens) == [i \in 1..Len(givens) |-> ViewOf(givens[i])]

\* The descriptors parse_diff_name_status_output and the untracked list give.
Descriptor(status, display_path, base_path, head_path, base_source, head_source) ==
    [raw_status |-> status, display_path |-> display_path,
     base_path |-> base_path, head_path |-> head_path,
     base_source |-> base_source, head_source |-> head_source]

ViewDescriptors ==
    {Descriptor(<<"A">>, <<"x">>, None, Some(<<"x">>), "Missing", head_source) :
        head_source \in {"Commit", "WorkingTree"}}
    \cup {Descriptor(<<"?", "?">>, <<"x">>, None, Some(<<"x">>), "Missing", "WorkingTree"),
          Descriptor(<<"D">>, <<"x">>, Some(<<"x">>), None, "Commit", "Missing")}
    \cup {Descriptor(<<"M">>, <<"x">>, Some(<<"x">>), Some(<<"x">>), "Commit", head_source) :
        head_source \in {"Commit", "WorkingTree"}}
    \cup {Descriptor(<<"R">>, <<"x", " ", "-", ">", " ", "y">>, Some(<<"x">>), Some(<<"y">>),
                     "Commit", head_source) :
        head_source \in {"Commit", "WorkingTree"}}

\* What the patch command returns: an error, or a patch.
ViewDiffs ==
    {[ok |-> FALSE, output |-> <<>>],
     [ok |-> TRUE, output |-> <<>>],
     [ok |-> TRUE,
      output |-> <<"@", "@", " ", "-", "2", " ", "+", "2", ",", "2", " ", "@", "@", "\n">>]}

ViewGivens(descriptors) ==
    [descriptor : descriptors,
     left_content : {<< <<"a">>, <<"r">> >>},
     right_content : {<< <<"a">>, <<"b">>, <<"r">> >>},
     diff : ViewDiffs]

ViewInit ==
    /\ SessionInit({NoFile})
    /\ \E first \in ViewGivens(ViewDescriptors),
          second \in ViewGivens({d \in ViewDescriptors : d.raw_status \in {<<"M">>, <<"D">>}}) :
        call_args = [op |-> "input", givens |-> <<first, second>>]
    /\ call_result = NoCall

\* get_line_highlights_for_descriptor on the first file
ViewHighlights ==
    /\ call_args # NoCall
    /\ call_args.op = "input"
    /\ LET given == call_args.givens[1]
           view == ViewOf(given)
       IN  call_result' = get_line_highlights_for_descriptor(
                                given.descriptor, Len(view.left_lines),
                                Len(view.right_lines), given.diff)
    /\ call_args' = [call_args EXCEPT !.op = "highlights"]
    /\ UNCHANGED session

\* build_file_views on both files
ViewBuild ==
    /\ call_args # NoCall
    /\ call_args.op \in {"input", "highlights"}
    /\ call_result' = build_file_views_from_git(call_args.givens)
    /\ call_args' = [call_args EXCEPT !.op = "views"]
    /\ UNCHANGED session

ViewNext ==
    \/ ViewHighlights
    \/ ViewBuild

ViewSpec == ViewInit /\ [][ViewNext]_vars

\* --------------- LayoutSpec: the frame layout and the commands at any size
\* A terminal size and a line count are drawn; the layout is computed, its
\* columns are looked up, and keys and mouse events are handled at that size.
\* Widest and tallest terminal enumerated below the u16 maximum.
MaxColumns == 20
MaxRows == 13
U16_MAX == 65535
LayoutColumns == (0..MaxColumns) \cup {U16_MAX}
LayoutRows == (0..MaxRows) \cup {U16_MAX}
LayoutLineCounts == {0, 1, 9, 10, 999, 1000, 100000}

\* Session states the commands are handled from.
LayoutApps ==
    {[AppState_new(Len(FileViews[1]), <<>>) EXCEPT
            !.file_index = file_index,
            !.scroll_offset = scroll_offset,
            !.pane_offsets_by_file[file_index + 1] = [left |-> 1, right |-> 1]] :
        file_index \in {0, 1}, scroll_offset \in {0, 2}}

LayoutInit ==
    /\ SessionInit({NoFile})
    /\ \E columns \in LayoutColumns, rows \in LayoutRows, max_lines \in LayoutLineCounts :
        call_args = [op |-> "input", columns |-> columns, rows |-> rows,
                     max_lines |-> max_lines, layout |-> NoCall,
                     column |-> 0, app |-> NoApp, file |-> NoCall]
    /\ call_result = NoCall

\* create_frame_layout at the size
LayoutCreate ==
    /\ call_args # NoCall
    /\ call_args.op = "input"
    /\ LET layout == create_frame_layout(call_args.columns, call_args.rows, call_args.max_lines)
       IN  /\ call_args' = [call_args EXCEPT !.op = "layout", !.layout = layout]
           /\ call_result' = layout
    /\ UNCHANGED session

\* get_pane_for_column at the ends of the panes and next to them
LayoutPane ==
    /\ call_args # NoCall
    /\ call_args.op = "layout"
    /\ LET layout == call_args.layout
       IN  \E column \in {0, layout.left_pane_end_column, layout.left_pane_end_column + 1,
                          saturating_sub(layout.right_pane_start_column, 1),
                          layout.right_pane_start_column, layout.right_pane_end_column,
                          layout.right_pane_end_column + 1} :
               /\ call_args' = [call_args EXCEPT !.op = "pane", !.column = column]
               /\ call_result' = get_pane_for_column(column, layout)
    /\ UNCHANGED session

\* handle_keypress with the size's rows
LayoutKey ==
    /\ call_args # NoCall
    /\ call_args.op = "layout"
    /\ \E key \in Keys, a \in LayoutApps :
        /\ call_args' = [call_args EXCEPT !.op = "key", !.app = a]
        /\ call_result' = handle_keypress(key, FileViews[1], a, call_args.rows).app
    /\ UNCHANGED session

\* handle_mouse with the size's columns and rows
LayoutMouse ==
    /\ call_args # NoCall
    /\ call_args.op = "layout"
    /\ \E mouse \in MouseEvents, a \in LayoutApps :
        /\ call_args' = [call_args EXCEPT !.op = "mouse", !.app = a]
        /\ call_result' = handle_mouse(mouse, FileViews[1], a, call_args.columns,
                                       call_args.rows)
    /\ UNCHANGED session

\* Widths of the widest normalized line of a pane.
LayoutContentLengths == {0, 1, 2, 7, 100}

\* get_max_pane_offsets of a file with the given widest lines, in the layout
LayoutOffsets ==
    /\ call_args # NoCall
    /\ call_args.op = "layout"
    /\ \E left \in LayoutContentLengths, right \in LayoutContentLengths :
        LET file == [FileViews[1][1] EXCEPT !.left_max_content_length = left,
                                            !.right_max_content_length = right]
        IN  /\ call_args' = [call_args EXCEPT !.op = "offsets", !.file = file]
            /\ call_result' = get_max_pane_offsets(file, call_args.layout)
    /\ UNCHANGED session

LayoutNext ==
    \/ LayoutCreate
    \/ LayoutPane
    \/ LayoutKey
    \/ LayoutMouse
    \/ LayoutOffsets

LayoutSpec == LayoutInit /\ [][LayoutNext]_vars

\* CommandSpec: one key or one mouse event handled from a session state over a
\* tall, wide file and a small one, at several terminal sizes.
\* Lines of the tall file's left pane.
MaxCommandLines == 10
CommandWideLine ==
    <<"r", "a", "a", "a", "a", "a", "a", "a", "a", "a",
      "a", "a", "a", "a", "a", "a", "a", "a", "a", "a">>
CommandLeftLines ==
    [i \in 1..MaxCommandLines |->
        IF i = 2 THEN CommandWideLine ELSE IF i = MaxCommandLines - 1 THEN <<"r">> ELSE <<"a">>]
CommandRightLines ==
    [i \in 1..(MaxCommandLines - 3) |-> IF i = 5 THEN <<"a", "r", "a", "a">> ELSE <<"b">>]

CommandTallFile ==
    [FileViews[1][1] EXCEPT
        !.left_lines = CommandLeftLines,
        !.right_lines = CommandRightLines,
        !.left_deleted_line_indexes = {0, 4, 5, MaxCommandLines - 1},
        !.right_added_line_indexes = {4, 6},
        !.left_max_content_length = get_max_normalized_line_length(CommandLeftLines),
        !.right_max_content_length = get_max_normalized_line_length(CommandRightLines)]

CommandFiles == <<CommandTallFile, FileViews[1][2]>>

CommandColumns == {0, 13, 16}
CommandRows == {0, 12, 13, U16_MAX}
CommandQueries == {<<>>, <<"r">>, <<"z">>}
CommandPaneOffsets ==
    {[left |-> 0, right |-> 0], [left |-> 1, right |-> 1],
     [left |-> 12, right |-> 2], [left |-> 19, right |-> 3]}
CommandMouseEvents ==
    [kind : {"ScrollUp", "ScrollDown", "ScrollLeft", "ScrollRight", "Moved"},
     shift : BOOLEAN, row : {4, 5, 8}, column : {2, 8, 13}]

\* The session states a command is handled from: a file, a scroll offset the
\* file allows, pane offsets, the mode, and a committed query with its match
\* list and a cursor in it.
CommandApps ==
    UNION {
        LET positioned ==
                [AppState_new(Len(CommandFiles), <<>>) EXCEPT
                    !.file_index = file_index,
                    !.scroll_offset = scroll_offset,
                    !.pane_offsets_by_file[file_index + 1] = pane_offsets,
                    !.search_input_mode = search_input_mode,
                    !.search_query = query]
            refreshed == refresh_search_matches_for_current_file(positioned, CommandFiles)
            match_count == Len(refreshed.search_match_line_indexes)
        IN  {[refreshed EXCEPT !.search_match_index = cursor] :
                cursor \in IF match_count = 0 THEN {None}
                           ELSE {Some(i) : i \in 0..(match_count - 1)}} :
        file_index \in 0..(Len(CommandFiles) - 1),
        scroll_offset \in 0..saturating_sub(MaxCommandLines, MIN_BODY_LINE_COUNT),
        pane_offsets \in CommandPaneOffsets,
        search_input_mode \in BOOLEAN,
        query \in CommandQueries}

CommandInit ==
    /\ SessionInit({NoFile})
    /\ \E a \in CommandApps, columns \in CommandColumns, rows \in CommandRows :
        /\ a.scroll_offset <= saturating_sub(MaxLines(CommandFiles[a.file_index + 1]),
                                             MIN_BODY_LINE_COUNT)
        /\ call_args = [op |-> "input", app |-> a, columns |-> columns, rows |-> rows,
                        key |-> NoCall, mouse |-> NoCall]
    /\ call_result = NoCall

\* handle_keypress on the state, with the rows of the size
CommandKey ==
    /\ call_args # NoCall
    /\ call_args.op = "input"
    /\ \E key \in Keys :
        /\ call_args' = [call_args EXCEPT !.op = "key", !.key = key]
        /\ call_result' = handle_keypress(key, CommandFiles, call_args.app, call_args.rows)
    /\ UNCHANGED session

\* handle_mouse on the state, with the columns and rows of the size
CommandMouse ==
    /\ call_args # NoCall
    /\ call_args.op = "input"
    /\ \E mouse \in CommandMouseEvents :
        /\ call_args' = [call_args EXCEPT !.op = "mouse", !.mouse = mouse]
        /\ call_result' = handle_mouse(mouse, CommandFiles, call_args.app,
                                       call_args.columns, call_args.rows)
    /\ UNCHANGED session

CommandNext ==
    \/ CommandKey
    \/ CommandMouse

CommandSpec == CommandInit /\ [][CommandNext]_vars

\* HunkCycleSpec: the forward hunk jump pressed again and again on one file at
\* one terminal size, from any scroll offset. pressed is 0 before the first
\* press and alternates between 1 and 2 after it.
HunkCycleInit ==
    /\ SessionInit({NoFile})
    /\ \E deleted \in HunkIndexSets, added \in {{}, {6}},
          scroll_offset \in 0..saturating_sub(Len(HunkLeftLines), MIN_BODY_LINE_COUNT),
          rows \in RowCounts :
        /\ call_args = [op |-> "forward",
                        file |-> [left_lines |-> HunkLeftLines,
                                  right_lines |-> HunkRightLines,
                                  left_deleted_line_indexes |-> deleted,
                                  right_added_line_indexes |-> added],
                        rows |-> rows, pressed |-> 0]
        /\ call_result = [AppState_new(1, <<FALSE>>) EXCEPT !.scroll_offset = scroll_offset]

\* AppState::jump_to_hunk forward, on the state the last press left
HunkCycleForward ==
    /\ call_args # NoCall
    /\ call_args.op = "forward"
    /\ call_args' = [call_args EXCEPT !.pressed = IF call_args.pressed = 1 THEN 2 ELSE 1]
    /\ call_result' = jump_to_hunk(call_result, <<call_args.file>>, call_args.rows, TRUE)
    /\ UNCHANGED session

HunkCycleNext == HunkCycleForward

HunkCycleSpec == HunkCycleInit /\ [][HunkCycleNext]_vars /\ WF_vars(HunkCycleForward)

\* ------------------------------------------------------------------- claims
\* The frame layout a paint at terminal size `size` computes for file i.
PaintLayout(i, size) == create_frame_layout(size.columns, size.rows, MaxLines(files[i]))

MaxScrollAt(i, size) ==
    saturating_sub(MaxLines(files[i]), PaintLayout(i, size).body_line_count)

\* The stored pane offsets of file i are within the maxima of `size`'s layout.
OffsetsInRange(i, size) ==
    LET max == get_max_pane_offsets(files[i], PaintLayout(i, size))
        offsets == app.pane_offsets_by_file[i]
    IN  /\ 0 <= offsets.left /\ offsets.left <= max.left
        /\ 0 <= offsets.right /\ offsets.right <= max.right

\* C1: after each paint (the loop is back at reading an event), the stored
\* scroll offset is within [0, maxScroll] and the active file's left and right
\* pane offsets are within [0, maxPaneOffset], for the layout of the terminal
\* size that paint used.
C1_AfterPaintInRange ==
    pc = "read" =>
        /\ 0 <= app.scroll_offset
        /\ app.scroll_offset <= MaxScrollAt(app.file_index + 1, painted)
        /\ OffsetsInRange(app.file_index + 1, painted)

\* A paint has left the scroll offset and the left pane offset at their
\* nonzero maxima.
C1_Witness ==
    /\ pc = "read"
    /\ app.scroll_offset > 0
    /\ app.scroll_offset = MaxScrollAt(app.file_index + 1, painted)
    /\ current_offsets(app).left > 0
    /\ current_offsets(app).left =
            get_max_pane_offsets(files[app.file_index + 1],
                                 PaintLayout(app.file_index + 1, painted)).left

\* C2: after every transition (an event and its paint), the stored pane
\* offsets of every file, the inactive ones included, are within the maxima
\* of the layout of the terminal size that paint used.
C2_EveryFileInRange ==
    pc = "read" => \A i \in 1..Len(files) : OffsetsInRange(i, painted)

\* The keys of the change-file command, and the delta each one asks for.
ChangeFileKeys ==
    {Key("Char", "h", FALSE, FALSE, FALSE), Key("Char", "l", FALSE, FALSE, FALSE),
     Key("Left", "", FALSE, FALSE, FALSE), Key("Right", "", FALSE, FALSE, FALSE)}
DeltaOf(key) == IF key.code = "Left" \/ key.ch = "h" THEN -1 ELSE 1

\* C3: the file index is always within [0, fileCount - 1], with at least one
\* file; a change-file command sets it to fileIndex + delta clamped to that
\* range, and when that is the index it already has, the scroll offset, the
\* match list and the match cursor are what they were.
C3_FileIndexClamped ==
    pc \in {"read", "persist", "write", "paint"} =>
        /\ Len(files) >= 1
        /\ 0 <= app.file_index
        /\ app.file_index < Len(files)
        /\ (pc = "read" /\ ~app.search_input_mode) =>
            \A key \in ChangeFileKeys, rows \in RowCounts :
                LET after == handle_keypress(key, files, app, rows).app
                    target == Max(0, Min(app.file_index + DeltaOf(key), Len(files) - 1))
                IN  /\ after.file_index = target
                    /\ target = app.file_index =>
                        /\ after.scroll_offset = app.scroll_offset
                        /\ after.search_match_line_indexes = app.search_match_line_indexes
                        /\ after.search_match_index = app.search_match_index

\* Back at the first file after a visit to the second, scrolled down and with
\* a match selected: "previous" is the command that changes nothing.
C3_Witness ==
    /\ pc = "read"
    /\ ~app.search_input_mode
    /\ app.file_index = 0
    /\ app.scroll_offset > 0
    /\ app.search_match_line_indexes # <<>>
    /\ app.search_match_index # None
    /\ app.pane_offsets_by_file[2].left > 0

ToggleKey == Key("Char", "r", FALSE, FALSE, FALSE)

\* C5: toggling reviewed twice in a row on the active file restores the file's
\* flag and the cached count; the first toggle reports the negation of the
\* original flag and the second the original flag.
C5_ToggleTwiceRestores ==
    (pc = "read" /\ ~app.search_input_mode) =>
        \A rows \in RowCounts :
            LET original == app.reviewed_by_file[app.file_index + 1]
                first == handle_keypress(ToggleKey, files, app, rows)
                second == handle_keypress(ToggleKey, files, first.app, rows)
            IN  /\ first.review_toggled = Some(<<app.file_index, ~original>>)
                /\ first.app.reviewed_by_file[app.file_index + 1] = ~original
                /\ second.review_toggled = Some(<<app.file_index, original>>)
                /\ second.app.reviewed_by_file = app.reviewed_by_file
                /\ second.app.reviewed_count = app.reviewed_count

\* The active file is reviewed, another one is too and a third is not: the
\* pair of toggles starts from a marked file and a count of two.
C5_Witness ==
    /\ pc = "read"
    /\ ~app.search_input_mode
    /\ app.reviewed_by_file[app.file_index + 1]
    /\ app.reviewed_count = 2

\* C6: the cached reviewed count is the number of files whose flag is true,
\* so it lies within [0, fileCount], from AppState::new on the loaded flags
\* through every toggle and file change.
C6_CountIsCardinality ==
    /\ Len(app.reviewed_by_file) = (IF pc \in {"read", "persist", "write", "paint"}
                                    THEN Len(files) ELSE 0)
    /\ app.reviewed_count =
            Cardinality({i \in 1..Len(app.reviewed_by_file) : app.reviewed_by_file[i]})
    /\ 0 <= app.reviewed_count
    /\ app.reviewed_count <= Len(app.reviewed_by_file)

\* About to paint on the second file with the first two of the three files
\* reviewed, the store written through.
C6_Witness ==
    /\ pc = "paint"
    /\ app.file_index = 1
    /\ app.reviewed_by_file = <<TRUE, TRUE, FALSE>>
    /\ app.reviewed_count = 2
    /\ ReadReviewed(disk) = reviewed_hashes
    /\ exit_status = "none"

\* C7: a toggle sets the store's membership of the toggled file's fingerprint
\* to the new flag and leads to the write, never directly to a paint or a
\* read; and whenever the loop comes to a paint or to reading an event, the
\* review file holds the full set of the store.
C7_WriteThrough ==
    [][/\ (pc = "read" /\ pc' \in {"persist", "paint", "read"}
              /\ app'.reviewed_by_file # app.reviewed_by_file)
            => /\ pc' = "persist"
               /\ LET review_key == files[app.file_index + 1].review_key
                      reviewed == app'.reviewed_by_file[app.file_index + 1]
                  IN  /\ reviewed = ~app.reviewed_by_file[app.file_index + 1]
                      /\ (review_key \in reviewed_hashes') = reviewed
                      /\ reviewed_hashes' \ {review_key} = reviewed_hashes \ {review_key}
       /\ (pc' \in {"paint", "read"}) => ReadReviewed(disk') = reviewed_hashes'
       /\ (pc \in {"persist", "write"} /\ pc' = "paint")
            => disk' = [exists |-> TRUE, text |-> PersistOutput(reviewed_hashes')]]_vars

\* About to paint after a toggle: the review file has been rewritten with the
\* store's set, which holds the hand-written entry and a toggled fingerprint.
C7_Witness ==
    /\ pc = "paint"
    /\ <<"f">> \in reviewed_hashes
    /\ files[app.file_index + 1].review_key \in reviewed_hashes
    /\ disk.text = PersistOutput(reviewed_hashes)
    /\ disk.text # HandWritten.text

\* C8: an interruption can come at any point of a session and leaves the
\* review file as it is at that point, so the claim says: at every point of a
\* session the set readable from the review file is the store's set as it was
\* just before or just after the most recent toggle.
C8_InterruptionLosesAtMostOneToggle ==
    pc \in {"read", "persist", "write", "paint"} =>
        LET review_key == files[app.file_index + 1].review_key
            after == reviewed_hashes
            before == IF pc \in {"persist", "write"}
                      THEN (IF review_key \in after
                            THEN after \ {review_key}
                            ELSE after \cup {review_key})
                      ELSE after
        IN  ReadReviewed(disk) \in {before, after}

\* C9: the loop goes on from a persist only when the whole set was written; a
\* persist that does not complete leaves the loop with an error, after which
\* no event is handled and nothing is painted: the terminal restoration is
\* attempted and the process exits with a failure.
C9_PersistFailureIsFatal ==
    [][/\ (pc \in {"persist", "write"} /\ pc' = "paint")
            => disk' = [exists |-> TRUE, text |-> PersistOutput(reviewed_hashes)]
       /\ (pc \in {"persist", "write"} /\ pc' \notin {"write", "paint", "idle"})
            => (pc' = "restore" /\ run_result' = "err")
       /\ (pc = "restore" /\ run_result = "err")
            => /\ pc' = "idle"
               /\ run_result' = "err"
               /\ exit_status' # "success"
               /\ exit_status' = "failure" <=> restore_attempted'
               /\ exit_status' = "killed" <=> ~restore_attempted']_vars

\* The loop was left with an error while the store holds a toggle the review
\* file does not: the persist failed.
C9_Witness ==
    /\ pc = "restore"
    /\ run_result = "err"
    /\ ReadReviewed(disk) # reviewed_hashes

\* C10: when a session starts, a file is initially reviewed, and counted, if
\* and only if its fingerprint is in the set the review file holds from the
\* earlier sessions.
C10_MarksBoundToContent ==
    [][(pc = "loaded" /\ pc' = "read")
        => /\ Len(app'.reviewed_by_file) = Len(files)
           /\ \A i \in 1..Len(files) :
                app'.reviewed_by_file[i] <=> (files[i].review_key \in ReadReviewed(disk))
           /\ app'.reviewed_count =
                Cardinality({i \in 1..Len(files) : files[i].review_key \in ReadReviewed(disk)})
           /\ reviewed_hashes' = ReadReviewed(disk)]_vars

\* A session over the changed content has started: the first file, marked
\* earlier and unchanged, starts reviewed; the third, marked earlier with its
\* old content, starts unreviewed.
C10_Witness ==
    /\ pc = "read"
    /\ snapshot = 2
    /\ FileViews[1][1].review_key \in ReadReviewed(disk)
    /\ FileViews[1][3].review_key \in ReadReviewed(disk)
    /\ FileViews[1][3].review_key # FileViews[2][3].review_key
    /\ app.reviewed_by_file = <<TRUE, FALSE, FALSE>>
    /\ app.reviewed_count = 1

\* What compute_review_key digests of its arguments.
KeyDigested(args) ==
    <<args.descriptor.raw_status, args.descriptor.display_path,
      unwrap_or(args.descriptor.base_path, <<>>), unwrap_or(args.descriptor.head_path, <<>>),
      args.left_lines, args.right_lines>>

\* C11: a step that changes one line of the left or right lines, the status,
\* the display path, the base path or the head path, that swaps two different
\* lines or that moves a line from one pane to the other, all else held
\* constant, changes the fingerprint.
C11_KeyChangesWithContent ==
    [][KeyDigested(call_args') # KeyDigested(call_args) => call_result' # call_result]_vars

\* The two lines of the left pane of the first file have changed places, and
\* the key is not the first file's.
C11_Witness ==
    /\ call_args = [KeyBase EXCEPT !.left_lines = << <<"r">>, <<"a">> >>, !.changes = 1]
    /\ call_result # KeyOf(KeyBase)

\* C12: the fingerprint is a function of the status, the display path, the
\* base and head paths (or empty) and the two line sequences alone: a step that
\* changes none of them, whatever it changes of the content sources, the
\* highlight set, the language or the run of the program, leaves the key as
\* it was.
C12_KeyIsPure ==
    [][KeyDigested(call_args') = KeyDigested(call_args) => call_result' = call_result]_vars

\* Another run, with the content read from the working tree, another
\* highlight set and another language: the key is the first file's.
C12_Witness ==
    /\ call_args # KeyBase
    /\ call_args.run = 2
    /\ call_args.descriptor.head_source = "WorkingTree"
    /\ call_args.left_deleted_line_indexes = {0}
    /\ call_args.left_language # None
    /\ KeyDigested(call_args) = KeyDigested(KeyBase)
    /\ call_result = KeyOf(KeyBase)

\* `entry` is what trimming `line` leaves: the line is the entry between two
\* runs of whitespace, and the entry neither starts nor ends with whitespace.
IsTrimOf(entry, line) ==
    \E i \in 1..(Len(line) + 1), j \in 0..Len(line) :
        /\ entry = SubSeq(line, i, j)
        /\ \A k \in 1..(i - 1) : IsWhitespace(line[k])
        /\ \A k \in (j + 1)..Len(line) : IsWhitespace(line[k])
        /\ entry # <<>> => (~IsWhitespace(entry[1]) /\ ~IsWhitespace(entry[Len(entry)]))

\* The text is its lines, each followed by "\n".
RECURSIVE NewlineTerminated(_)
NewlineTerminated(lines) ==
    IF lines = <<>> THEN <<>> ELSE Head(lines) \o <<"\n">> \o NewlineTerminated(Tail(lines))

\* C13: the text persist writes holds every entry of the set exactly once,
\* ascending, one per line, every line newline-terminated, and is empty for
\* the empty set; parsing the written text gives the set back; parsing any
\* text gives the trimmed lines that are not empty.
C13_PersistParseRoundTrip ==
    /\ (call_args # NoCall /\ call_args.op = "persist") =>
        LET lines == Lines(call_result)
        IN  /\ call_result = NewlineTerminated(lines)
            /\ Len(lines) = Cardinality(call_args.reviewed_hashes)
            /\ {lines[i] : i \in 1..Len(lines)} = call_args.reviewed_hashes
            /\ \A i \in 1..(Len(lines) - 1) : StrLess(lines[i], lines[i + 1])
            /\ (call_args.reviewed_hashes = {}) <=> (call_result = <<>>)
    /\ (call_args # NoCall /\ call_args.op = "parse") =>
        LET lines == Lines(call_args.raw)
        IN  /\ \A entry \in call_result :
                /\ entry # <<>>
                /\ \E i \in 1..Len(lines) : IsTrimOf(entry, lines[i])
            /\ \A i \in 1..Len(lines) :
                (\E k \in 1..Len(lines[i]) : ~IsWhitespace(lines[i][k]))
                    => \E entry \in call_result : IsTrimOf(entry, lines[i])
            /\ call_args.raw = PersistOutput(call_args.reviewed_hashes)
                    => call_result = call_args.reviewed_hashes

\* The text written for a set of two entries has been parsed back.
C13_Witness ==
    /\ call_args # NoCall
    /\ call_args.op = "parse"
    /\ call_args.reviewed_hashes = {<<"b">>, <<"a", "b">>}
    /\ call_args.raw = <<"a", "b", "\n", "b", "\n">>
    /\ call_result = call_args.reviewed_hashes

\* C14: a session over a scope whose review file does not exist starts, with
\* an empty reviewed set, no error, every file unreviewed and a count of 0;
\* a load that does not start a session ends the process with a failure, the
\* loop never started, and a session that starts holds the set of the file.
C14_MissingFileIsEmptySet ==
    [][/\ (pc = "idle" /\ ~disk.exists)
            => (pc' = "loaded" /\ reviewed_hashes' = {} /\ exit_status' = "none")
       /\ (pc = "loaded" /\ pc' = "read" /\ ~disk.exists)
            => /\ app'.reviewed_by_file = [i \in 1..Len(files) |-> FALSE]
               /\ app'.reviewed_count = 0
       /\ (pc = "idle" /\ disk.exists)
            => \/ (pc' = "loaded" /\ reviewed_hashes' = parse_reviewed_hashes(disk.text))
               \/ (pc' = "idle" /\ exit_status' = "failure" /\ app' = NoApp
                     /\ painted' = NoSize /\ run_result' = "none" /\ disk' = disk)]_vars

\* A session has started with no review file: nothing is reviewed.
C14_Witness ==
    /\ pc = "read"
    /\ ~disk.exists
    /\ reviewed_hashes = {}
    /\ app.reviewed_by_file = <<FALSE, FALSE, FALSE>>
    /\ app.reviewed_count = 0
    /\ exit_status = "none"

\* The four values of a comparison that the spec says determine its scope.
ScopeValues(comparison) ==
    <<comparison.strategy_id, comparison.base_ref, comparison.head_ref,
      comparison.includes_uncommitted>>

\* The reviewed set a session over `comparison` would load.
ReviewedIn(comparison) == call_args.review_files[ScopePaths[comparison]]

\* C15: a comparison uses the review file of the session exactly when it has
\* the session's strategy, base reference, head reference and uncommitted
\* flag, whatever its resolved commits; a toggle leaves the reviewed set of
\* every comparison that differs in one of the four unchanged, and comparisons
\* equal in the four see one reviewed set.
C15_ScopeKeyIsTheFourValues ==
    [][\A other \in ScopeComparisons :
          /\ (ScopeValues(other) = ScopeValues(call_args'.comparison))
                <=> (ScopePaths[other] = call_result')
          /\ ScopeValues(other) # ScopeValues(call_args.comparison)
                /\ call_args'.comparison = call_args.comparison
                => ReviewedIn(other)' = ReviewedIn(other)
          /\ ScopeValues(other) = ScopeValues(call_args'.comparison)
                => ReviewedIn(other)' = ReviewedIn(call_args.comparison)']_vars

\* A toggle was made in one comparison: a comparison with other resolved
\* commits sees it, one that differs in the uncommitted flag alone does not.
C15_Witness ==
    /\ call_args # NoCall
    /\ "review_files" \in DOMAIN call_args
    /\ ReviewedIn(call_args.comparison) = {ScopeReviewKey}
    /\ \E same, other \in ScopeComparisons :
        /\ ScopeValues(same) = ScopeValues(call_args.comparison)
        /\ same.base_commit # call_args.comparison.base_commit
        /\ ReviewedIn(same) = {ScopeReviewKey}
        /\ other = [call_args.comparison EXCEPT !.includes_uncommitted = ~@]
        /\ ReviewedIn(other) = {}

\* The line indexes of the searched file whose left or right line contains
\* the query.
MatchingLines ==
    LET file == call_args.file
        query == call_args.query
    IN  {i \in 0..(Max(Len(file.left_lines), Len(file.right_lines)) - 1) :
            \/ i < Len(file.left_lines) /\ Contains(file.left_lines[i + 1], query)
            \/ i < Len(file.right_lines) /\ Contains(file.right_lines[i + 1], query)}

\* C16: for a non-empty query the match list is strictly ascending and its
\* elements are exactly the line indexes below the longer pane's line count
\* whose left or right line exists and contains the query, case-sensitively;
\* an empty query gives the empty list.
C16_MatchListIsTheMatchingLines ==
    (call_args # NoCall /\ "op" \in DOMAIN call_args /\ "matches" \in DOMAIN call_args
        /\ call_args.op = "build")
        => IF call_args.query = <<>> THEN call_result = <<>>
           ELSE /\ \A k \in 1..(Len(call_result) - 1) : call_result[k] < call_result[k + 1]
                /\ {call_result[k] : k \in 1..Len(call_result)} = MatchingLines

\* A line of the right pane alone matches, and a line that differs from the
\* query in case alone does not.
C16_Witness ==
    /\ call_args # NoCall /\ "op" \in DOMAIN call_args /\ "matches" \in DOMAIN call_args
    /\ call_args.op = "build"
    /\ call_args.query = <<"a">>
    /\ call_args.file.left_lines = <<<<"A">>>>
    /\ call_args.file.right_lines = <<<<"A">>, <<"a", "r">>, <<"a">>>>
    /\ call_result = <<1, 2>>

\* C17: over n >= 1 matches, next from i gives (i+1) mod n and previous from i
\* gives (i-1) mod n, next from no cursor gives 0 and previous from no cursor
\* gives n-1; with no matches there is no cursor.
C17_CursorIsCyclic ==
    (call_args # NoCall /\ "op" \in DOMAIN call_args /\ "matches" \in DOMAIN call_args
        /\ call_args.op = "next")
        => LET n == Len(call_args.matches)
               current == call_args.current_match_index
           IN  IF n = 0 THEN call_result = None
               ELSE IF current = None
               THEN call_result = Some(IF call_args.forward THEN 0 ELSE n - 1)
               ELSE LET i == current[1]
                    IN  call_result =
                            Some(IF call_args.forward
                                 THEN (IF i = n - 1 THEN 0 ELSE i + 1)
                                 ELSE (IF i = 0 THEN n - 1 ELSE i - 1))

\* Previous from the first of three matches wraps to the last.
C17_Witness ==
    /\ call_args # NoCall /\ "op" \in DOMAIN call_args /\ "matches" \in DOMAIN call_args
    /\ call_args.op = "next"
    /\ Len(call_args.matches) = 3
    /\ call_args.current_match_index = Some(0)
    /\ ~call_args.forward
    /\ call_result = Some(2)

EnterKey == Key("Enter", "", FALSE, FALSE, FALSE)
EscKey == Key("Esc", "", FALSE, FALSE, FALSE)

\* The state is read for the next event while the search input is open.
AwaitingSearchInput == pc = "read" /\ app # NoApp /\ app.search_input_mode

\* C18: wherever the search input is open, Enter makes the input the committed
\* query, returns to Normal mode and recomputes the matches of the active
\* file; with at least one match the cursor is the first match at or below
\* the scroll offset held before, or the first match when there is none, and
\* the scroll offset becomes that match's line, held to the maximum scroll.
C18_CommitSearchInput ==
    AwaitingSearchInput
        => \A rows \in RowCounts :
            LET out == handle_keypress(EnterKey, files, app, rows)
                file == files[app.file_index + 1]
                matches == build_search_match_line_indexes(file, app.search_input)
                qualifying == {k \in 1..Len(matches) : matches[k] >= app.scroll_offset}
                first == IF qualifying = {} THEN 1
                         ELSE CHOOSE k \in qualifying : \A o \in qualifying : k <= o
                max_scroll == saturating_sub(MaxLines(file), get_body_line_count(rows))
            IN  /\ ~out.should_quit /\ out.review_toggled = None
                /\ out.app.search_query = app.search_input
                /\ ~out.app.search_input_mode
                /\ out.app.search_match_line_indexes = matches
                /\ matches # <<>>
                     => /\ out.app.search_match_index = Some(first - 1)
                        /\ out.app.scroll_offset = Min(matches[first], max_scroll)

\* A query that matches line 0 of the second file alone is about to be
\* committed from below that line: no match is at or below the scroll offset.
C18_Witness ==
    /\ AwaitingSearchInput
    /\ app.file_index = 1
    /\ app.scroll_offset = 1
    /\ app.search_input = <<"R">>
    /\ build_search_match_line_indexes(files[2], <<"R">>) = <<0>>

\* C19: wherever the search input is open, Esc returns to Normal mode and
\* empties the input buffer, and changes nothing else: committed query, match
\* list, cursor, scroll offset, file index, pane offsets, review state.
C19_CancelDiscardsOnlyInput ==
    AwaitingSearchInput
        => \A rows \in RowCounts :
            LET out == handle_keypress(EscKey, files, app, rows)
            IN  /\ ~out.should_quit /\ out.review_toggled = None
                /\ ~out.app.search_input_mode
                /\ out.app = [app EXCEPT !.search_input_mode = FALSE,
                                         !.search_input = <<>>]

\* The search input is open over a committed query with a cursor, a scroll
\* offset and a reviewed file, and holds another query.
C19_Witness ==
    /\ AwaitingSearchInput
    /\ app.search_input = <<"R">>
    /\ app.search_query = <<"r">>
    /\ app.search_match_index = Some(1)
    /\ app.scroll_offset > 0
    /\ app.file_index = 0
    /\ app.reviewed_count = 1

\* What the search input mode is said to protect: file index, scroll offset,
\* pane offsets, committed query, match list, cursor and review state.
SearchInputKeeps(before, after) ==
    /\ after.file_index = before.file_index
    /\ after.scroll_offset = before.scroll_offset
    /\ after.pane_offsets_by_file = before.pane_offsets_by_file
    /\ after.search_query = before.search_query
    /\ after.search_match_line_indexes = before.search_match_line_indexes
    /\ after.search_match_index = before.search_match_index
    /\ after.reviewed_by_file = before.reviewed_by_file
    /\ after.reviewed_count = before.reviewed_count

\* C20: the mode changes only on an input event: Normal to SearchInput with
\* nothing else changed, SearchInput to Normal by a commit or a cancel; and
\* an input event handled while the mode is SearchInput either is a commit or
\* leaves file index, scroll offset, pane offsets, committed query, match
\* list, cursor and review state unchanged.
C20_SearchInputIsModal ==
    [][(app # NoApp /\ app' # NoApp)
        => /\ (app'.search_input_mode # app.search_input_mode) => pc = "read"
           /\ (pc = "read" /\ ~app.search_input_mode /\ app'.search_input_mode)
                => app' = [app EXCEPT !.search_input_mode = TRUE, !.search_input = <<>>]
           /\ (pc = "read" /\ app.search_input_mode)
                => \/ /\ SearchInputKeeps(app, app')
                      /\ reviewed_hashes' = reviewed_hashes
                      /\ app'.search_input_mode
                           => \/ app'.search_input = app.search_input
                              \/ \E ch \in SearchChars :
                                    app'.search_input = Append(app.search_input, ch)
                              \/ /\ app.search_input # <<>>
                                 /\ app'.search_input =
                                        SubSeq(app.search_input, 1, Len(app.search_input) - 1)
                   \/ /\ ~app'.search_input_mode
                      /\ app'.search_query = app.search_input
                      /\ app'.file_index = app.file_index
                      /\ app'.pane_offsets_by_file = app.pane_offsets_by_file
                      /\ app'.reviewed_by_file = app.reviewed_by_file
                      /\ reviewed_hashes' = reviewed_hashes]_vars

\* A function-level specification has applied the operation `op`.
Applied(op) == call_args # NoCall /\ "op" \in DOMAIN call_args /\ call_args.op = op

\* The changed indexes of the file the hunk operations are applied to.
ChangedIndexes ==
    call_args.file.left_deleted_line_indexes \cup call_args.file.right_added_line_indexes

\* The first index of each maximal run of consecutive changed indexes.
RunStarts == {i \in ChangedIndexes : i = 0 \/ (i - 1) \notin ChangedIndexes}

\* C21: the hunk-start list is strictly ascending and holds exactly the changed
\* indexes (of either pane) that are 0 or whose predecessor is not changed;
\* for the changed set {4,5,6,9} it is 4, 9.
C21_HunkStartsAreRunStarts ==
    (Applied("build") /\ "file" \in DOMAIN call_args /\ "app" \in DOMAIN call_args)
        => /\ \A k \in 1..(Len(call_result) - 1) : call_result[k] < call_result[k + 1]
           /\ {call_result[k] : k \in 1..Len(call_result)} = RunStarts
           /\ ChangedIndexes = {4, 5, 6, 9} => call_result = <<4, 9>>

\* The changed set {4,5,6,9} comes from two panes whose own runs meet.
C21_Witness ==
    /\ Applied("build") /\ "file" \in DOMAIN call_args /\ "app" \in DOMAIN call_args
    /\ call_args.file.left_deleted_line_indexes = {4, 5}
    /\ call_args.file.right_added_line_indexes = {6, 9}
    /\ call_result = <<4, 9>>

\* C22: a forward jump sets the scroll offset to min(t, maxScroll) with t the
\* smallest hunk start above the offset, or the first one when none is above;
\* a backward jump uses the largest hunk start below the offset, or the last
\* one; with no hunk starts nothing changes; only the scroll offset changes.
C22_HunkJump ==
    (Applied("jump") /\ "app" \in DOMAIN call_args)
        => LET a == call_args.app
               above == {t \in RunStarts : t > a.scroll_offset}
               below == {t \in RunStarts : t < a.scroll_offset}
               lowest(S) == CHOOSE t \in S : \A o \in S : t <= o
               highest(S) == CHOOSE t \in S : \A o \in S : t >= o
               t == IF call_args.forward
                    THEN (IF above # {} THEN lowest(above) ELSE lowest(RunStarts))
                    ELSE (IF below # {} THEN highest(below) ELSE highest(RunStarts))
               max_scroll == saturating_sub(MaxLines(call_args.file),
                                            get_body_line_count(call_args.rows))
           IN  IF RunStarts = {} THEN call_result = a
               ELSE call_result = [a EXCEPT !.scroll_offset = Min(t, max_scroll)]

\* A backward jump from the first hunk start wraps to the last, whose line is
\* held to the maximum scroll.
C22_Witness ==
    /\ Applied("jump") /\ "app" \in DOMAIN call_args
    /\ ChangedIndexes = {4, 5, 6, 9}
    /\ ~call_args.forward
    /\ call_args.app.scroll_offset = 4
    /\ call_result.scroll_offset = 7

\* The indexes [start-1, start-1+count) of one side of a header, a missing
\* count being 1 and a start of 0 being read as 1.
MarkedBy(start, count) ==
    LET first == IF start = 0 THEN 0 ELSE start - 1
        length == IF count = None THEN 1 ELSE count[1]
    IN  {i \in first..(first + length - 1) : TRUE}

C24_AbsentSideMarksWholeFile ==
    (Applied("highlights") /\ "givens" \in DOMAIN call_args)
        => LET given == call_args.givens[1]
               left_line_count == IF given.descriptor.base_source = "Missing" THEN 1
                                  ELSE Len(given.left_content)
               right_line_count == IF given.descriptor.head_source = "Missing" THEN 1
                                   ELSE Len(given.right_content)
           IN  /\ given.descriptor.base_source = "Missing"
                    => /\ call_result.right_added_line_indexes = 0..(right_line_count - 1)
                       /\ call_result.left_deleted_line_indexes = {}
               /\ given.descriptor.head_source = "Missing"
                    => /\ call_result.left_deleted_line_indexes = 0..(left_line_count - 1)
                       /\ call_result.right_added_line_indexes = {}

\* An added file whose patch command returned a patch with a header: all
\* three lines of its head side are marked.
C24_Witness ==
    /\ Applied("highlights") /\ "givens" \in DOMAIN call_args
    /\ call_args.givens[1].descriptor.base_source = "Missing"
    /\ call_args.givens[1].diff.ok
    /\ call_args.givens[1].diff.output # <<>>
    /\ call_result = [left_deleted_line_indexes |-> {},
                      right_added_line_indexes |-> {0, 1, 2}]

\* The patch of the file is asked for and the command fails.
PatchFailed(given) ==
    /\ given.descriptor.base_source # "Missing"
    /\ given.descriptor.head_source # "Missing"
    /\ ~given.diff.ok

\* C25: a file whose patch cannot be obtained gets a view with its descriptor
\* and both sides' lines and empty highlight sets; every file has a view, and
\* the view of every other file is the one it has when that patch is obtained.
C25_PatchFailureLeavesFileUnhighlighted ==
    (Applied("views") /\ "givens" \in DOMAIN call_args)
        => LET givens == call_args.givens
           IN  /\ Len(call_result) = Len(givens)
               /\ \A i \in 1..Len(givens) :
                    PatchFailed(givens[i])
                        => /\ call_result[i].left_deleted_line_indexes = {}
                           /\ call_result[i].right_added_line_indexes = {}
                           /\ call_result[i].descriptor = givens[i].descriptor
                           /\ call_result[i].left_lines = givens[i].left_content
                           /\ call_result[i].right_lines = givens[i].right_content
                           /\ \A j \in (1..Len(givens)) \ {i} :
                                \A diff \in ViewDiffs :
                                    call_result[j] =
                                        build_file_views_from_git(
                                            [givens EXCEPT ![i].diff = diff])[j]

\* The patch of the first file failed and the second file's patch marks lines.
C25_Witness ==
    /\ Applied("views") /\ "givens" \in DOMAIN call_args
    /\ PatchFailed(call_args.givens[1])
    /\ call_args.givens[2].diff.ok
    /\ Len(call_result) = 2
    /\ call_result[1].right_added_line_indexes = {}
    /\ call_result[2].right_added_line_indexes = {1, 2}

\* The layout has been computed for a terminal of at least the minimum width:
\* the separator and one column for each pane.
LayoutAtWidth ==
    /\ call_args # NoCall /\ "layout" \in DOMAIN call_args
    /\ call_args.op \in {"layout", "pane"}
    /\ call_args.columns >= Len(PANE_SEPARATOR) + 2

\* C26: at every width from the minimum up, the pane widths and the separator
\* width add up to the columns, the left pane starts at column 0, the right
\* pane starts right after the separator and ends at the last column, and a
\* column belongs to the left pane, to the right pane or to the separator.
C26_PanesFillTheWidth ==
    LayoutAtWidth
        => LET layout == call_args.layout
               columns == call_args.columns
               left_columns == 0..(layout.left_pane_width - 1)
               right_columns == (layout.left_pane_width + Len(PANE_SEPARATOR))..(columns - 1)
           IN  /\ layout.left_pane_width + Len(PANE_SEPARATOR) + layout.right_pane_width
                    = columns
               /\ layout.left_pane_start_column = 0
               /\ layout.left_pane_end_column = layout.left_pane_width - 1
               /\ layout.right_pane_start_column
                    = layout.left_pane_end_column + Len(PANE_SEPARATOR) + 1
               /\ layout.right_pane_end_column = columns - 1
               /\ left_columns \cap right_columns = {}
               /\ call_args.op = "pane"
                    => call_result = (IF call_args.column \in left_columns THEN <<"Left">>
                                      ELSE IF call_args.column \in right_columns
                                      THEN <<"Right">> ELSE <<>>)

\* The first column of the right pane is looked up at an odd width.
C26_Witness ==
    /\ LayoutAtWidth
    /\ call_args.op = "pane"
    /\ call_args.columns = 16
    /\ call_args.column = 9
    /\ call_result = <<"Right">>

\* C27: the columns left after the separator are split in half, the left pane
\* taking the extra column when their number is odd.
C27_LeftPaneTakesTheOddColumn ==
    (LayoutAtWidth /\ call_args.op = "layout")
        => LET layout == call_args.layout
               available == call_args.columns - Len(PANE_SEPARATOR)
           IN  /\ layout.left_pane_width + layout.right_pane_width = available
               /\ layout.left_pane_width
                    = layout.right_pane_width + (IF available % 2 = 1 THEN 1 ELSE 0)

\* The number of decimal digits of n.
DigitCount(n) == CHOOSE d \in 1..7 : n < 10 ^ d /\ (d = 1 \/ n >= 10 ^ (d - 1))

\* C28: the body has max(3, rows - 8) lines, 8 being 4 header, 2 footer and 2
\* divider rows; the line-number width is max(3, digits of the line count);
\* each content width is max(0, pane width - (line-number width + 1)).
C28_BodyAndContentWidths ==
    (call_args # NoCall /\ "layout" \in DOMAIN call_args /\ call_args.op = "layout")
        => LET layout == call_args.layout
           IN  /\ HEADER_LINE_COUNT = 4 /\ FOOTER_LINE_COUNT = 2
               /\ FRAME_DIVIDER_LINE_COUNT = 2
               /\ layout.body_line_count = Max(3, call_args.rows - 8)
               /\ layout.line_number_width = Max(3, DigitCount(call_args.max_lines))
               /\ layout.left_content_width
                    = Max(0, layout.left_pane_width - (layout.line_number_width + 1))
               /\ layout.right_content_width
                    = Max(0, layout.right_pane_width - (layout.line_number_width + 1))

\* A terminal of 7 rows and 6 columns showing 1000 lines: the floor of the
\* body height, a four-digit number column and no content column.
C28_Witness ==
    /\ call_args # NoCall /\ "layout" \in DOMAIN call_args /\ call_args.op = "layout"
    /\ call_args.rows = 7 /\ call_args.columns = 6 /\ call_args.max_lines = 1000
    /\ call_result.body_line_count = 3
    /\ call_result.line_number_width = 4
    /\ call_result.left_content_width = 0

\* A session state within its ranges: a file index of the list, offsets and a
\* count that are natural numbers, the count being that of the marked files.
AppInRange(a) ==
    /\ a.file_index \in 0..(Len(FileViews[1]) - 1)
    /\ a.scroll_offset \in Nat
    /\ \A i \in 1..Len(a.pane_offsets_by_file) :
        a.pane_offsets_by_file[i].left \in Nat /\ a.pane_offsets_by_file[i].right \in Nat
    /\ a.reviewed_count = Cardinality({i \in 1..Len(a.reviewed_by_file) : a.reviewed_by_file[i]})

C31_MaxPaneOffset ==
    Applied("offsets")
        => LET file == call_args.file
               layout == call_args.layout
           IN  /\ call_result.left =
                    Max(0, file.left_max_content_length - layout.left_content_width)
               /\ call_result.right =
                    Max(0, file.right_max_content_length - layout.right_content_width)

\* The maximum offset the amended C31 gives a pane.
MaxPaneOffsetOf(max_content_width, content_width) ==
    IF content_width = 0 THEN 0 ELSE Max(0, max_content_width - content_width)

\* C31, amended: the maximum horizontal offset of each pane is
\* max(0, maxContentWidth - contentWidth) when the pane's content width is
\* positive, and 0 when the content width is 0, whatever the widest line is.
C31_MaxPaneOffsetOfVisibleContent ==
    Applied("offsets")
        => LET file == call_args.file
               layout == call_args.layout
           IN  /\ call_result.left =
                    MaxPaneOffsetOf(file.left_max_content_length, layout.left_content_width)
               /\ call_result.right =
                    MaxPaneOffsetOf(file.right_max_content_length, layout.right_content_width)

\* At 12 columns the left pane shows no content and the right pane one
\* column: lines 7 wide leave the left pane at 0 and let the right scroll by 6.
C31_Witness ==
    /\ Applied("offsets")
    /\ call_args.columns = 12
    /\ call_args.layout.left_content_width = 0
    /\ call_args.layout.right_content_width = 1
    /\ call_args.file.left_max_content_length = 7
    /\ call_args.file.right_max_content_length = 7
    /\ call_result = [left |-> 0, right |-> 6]

\* The key of a command that was handled in Normal mode.
NormalKey(code, ch, ctrl, shift) ==
    /\ Applied("key")
    /\ ~call_args.app.search_input_mode
    /\ call_args.key = Key(code, ch, ctrl, FALSE, shift)

\* The maximum scroll of the active file of the command, as the claims state it.
CommandMaxScroll ==
    LET file == CommandFiles[call_args.app.file_index + 1]
    IN  Max(0, Max(Len(file.left_lines), Len(file.right_lines))
                    - get_body_line_count(call_args.rows))

\* The state of the command with the scroll offset moved by delta and clamped.
ScrolledBy(delta) ==
    [call_args.app EXCEPT
        !.scroll_offset = Max(0, Min(call_args.app.scroll_offset + delta, CommandMaxScroll))]

\* A wheel event without SHIFT inside the body rows, handled in Normal mode.
NormalWheel(kind) ==
    /\ Applied("mouse")
    /\ ~call_args.app.search_input_mode
    /\ call_args.mouse.kind = kind
    /\ ~call_args.mouse.shift
    /\ call_args.mouse.row >= HEADER_LINE_COUNT + 1
    /\ call_args.mouse.row <= HEADER_LINE_COUNT + get_body_line_count(call_args.rows)

\* C32: in Normal mode each vertical scroll command sets scrollOffset to
\* clamp(old + delta, 0, maxScroll) and changes nothing else, with
\* maxScroll = max(0, max(leftLineCount, rightLineCount) - bodyLineCount) at
\* the rows of the event: delta is -1/+1 for line up/down, -/+ bodyLineCount
\* for page up/down, -3/+3 for the wheel; top gives 0 and bottom maxScroll.
C32_VerticalScroll ==
    LET page == get_body_line_count(call_args.rows)
    IN  /\ (NormalKey("Up", "", FALSE, FALSE) \/ NormalKey("Char", "k", FALSE, FALSE))
                => call_result = Default(ScrolledBy(-1))
        /\ (NormalKey("Down", "", FALSE, FALSE) \/ NormalKey("Char", "j", FALSE, FALSE))
                => call_result = Default(ScrolledBy(1))
        /\ (NormalKey("PageUp", "", FALSE, FALSE) \/ NormalKey("Char", "u", TRUE, FALSE))
                => call_result = Default(ScrolledBy(-page))
        /\ (NormalKey("PageDown", "", FALSE, FALSE) \/ NormalKey("Char", "d", TRUE, FALSE))
                => call_result = Default(ScrolledBy(page))
        /\ (NormalKey("Home", "", FALSE, FALSE) \/ NormalKey("Char", "g", FALSE, FALSE))
                => call_result = Default([call_args.app EXCEPT !.scroll_offset = 0])
        /\ (NormalKey("End", "", FALSE, FALSE) \/ NormalKey("Char", "G", FALSE, FALSE)
                \/ NormalKey("Char", "g", FALSE, TRUE))
                => call_result =
                        Default([call_args.app EXCEPT !.scroll_offset = CommandMaxScroll])
        /\ NormalWheel("ScrollUp") => call_result = ScrolledBy(-3)
        /\ NormalWheel("ScrollDown") => call_result = ScrolledBy(3)

\* The wheel scrolled the tall file down from line 2 to line 5 of the 6 that
\* a body of 4 lines allows.
C32_Witness ==
    /\ NormalWheel("ScrollDown")
    /\ call_args.rows = 12
    /\ call_args.app.file_index = 0
    /\ call_args.app.scroll_offset = 2
    /\ call_result.scroll_offset = 5
    /\ CommandMaxScroll = 6

\* The layout of the active file of the command at the size of the event.
CommandLayout ==
    create_frame_layout(call_args.columns, call_args.rows,
                        MaxLines(CommandFiles[call_args.app.file_index + 1]))

\* The mouse event of the command lies in the body rows.
InBodyRows ==
    /\ call_args.mouse.row >= CommandLayout.body_start_row
    /\ call_args.mouse.row <= CommandLayout.body_end_row

\* The pane the column of the mouse event lies in, if any.
HoveredPanes ==
    {pane \in {"left", "right"} :
        IF pane = "left"
        THEN call_args.mouse.column <= CommandLayout.left_pane_end_column
        ELSE /\ call_args.mouse.column >= CommandLayout.right_pane_start_column
             /\ call_args.mouse.column <= CommandLayout.right_pane_end_column}

\* The horizontal step of the mouse event of the command: 0 when it is none.
HorizontalDelta ==
    LET mouse == call_args.mouse
    IN  IF mouse.kind = "ScrollLeft" \/ (mouse.kind = "ScrollUp" /\ mouse.shift)
        THEN -MOUSE_WHEEL_HORIZONTAL_COLUMNS
        ELSE IF mouse.kind = "ScrollRight" \/ (mouse.kind = "ScrollDown" /\ mouse.shift)
        THEN MOUSE_WHEEL_HORIZONTAL_COLUMNS
        ELSE 0

\* C33: a horizontal scroll of pane p changes only the offset of pane p of the
\* active file, to clamp(old + delta, 0, maxPaneOffset of p), and leaves the
\* other pane, the other files, scrollOffset, fileIndex and the search and
\* review state alone; it happens only for a wheel event inside the body rows
\* whose column lies in a pane: a column in the separator or a row outside the
\* body changes nothing, and no key changes a pane offset.
C33_HorizontalScroll ==
    /\ Applied("key") =>
            call_result.app.pane_offsets_by_file = call_args.app.pane_offsets_by_file
    /\ Applied("mouse") =>
        LET a == call_args.app
            file == CommandFiles[a.file_index + 1]
            old == a.pane_offsets_by_file[a.file_index + 1]
            max_left == MaxPaneOffsetOf(file.left_max_content_length,
                                        CommandLayout.left_content_width)
            max_right == MaxPaneOffsetOf(file.right_max_content_length,
                                         CommandLayout.right_content_width)
        IN  IF InBodyRows /\ HorizontalDelta # 0 /\ HoveredPanes = {"left"}
            THEN call_result =
                    [a EXCEPT !.pane_offsets_by_file[a.file_index + 1].left =
                        Max(0, Min(old.left + HorizontalDelta, max_left))]
            ELSE IF InBodyRows /\ HorizontalDelta # 0 /\ HoveredPanes = {"right"}
            THEN call_result =
                    [a EXCEPT !.pane_offsets_by_file[a.file_index + 1].right =
                        Max(0, Min(old.right + HorizontalDelta, max_right))]
            ELSE call_result.pane_offsets_by_file = a.pane_offsets_by_file
    /\ (Applied("mouse") /\ (~InBodyRows \/ (HorizontalDelta # 0 /\ HoveredPanes = {})))
            => call_result = call_args.app

\* At 13 columns a wheel step to the right over the left pane took its offset
\* from 1 to 9 of the 19 the wide line allows; the right pane stayed at 1.
C33_Witness ==
    /\ Applied("mouse")
    /\ call_args.mouse.kind = "ScrollRight"
    /\ call_args.columns = 13
    /\ call_args.app.file_index = 0
    /\ call_args.app.pane_offsets_by_file[1] = [left |-> 1, right |-> 1]
    /\ call_result.pane_offsets_by_file[1] = [left |-> 9, right |-> 1]

\* The state the claim gives a match jump: the cursor one step on, cyclically,
\* and the scroll offset at that match, clamped to the maximum scroll.
MatchJumped(step) ==
    LET a == call_args.app
        match_count == Len(a.search_match_line_indexes)
        cursor == (a.search_match_index[1] + match_count + step) % match_count
    IN  [a EXCEPT !.search_match_index = Some(cursor),
                  !.scroll_offset = Min(a.search_match_line_indexes[cursor + 1],
                                        CommandMaxScroll)]

\* C34: a next-match or previous-match jump over a non-empty match list moves
\* the cursor cyclically and sets scrollOffset to
\* min(matchLines[cursor], maxScroll) at the rows of the event; over an empty
\* list it leaves scrollOffset unchanged and the cursor is none; the match
\* list, the committed query and the file index never change.
C34_MatchJump ==
    /\ (NormalKey("Char", "n", FALSE, FALSE) /\ call_args.app.search_match_line_indexes # <<>>)
            => call_result = Default(MatchJumped(1))
    /\ (NormalKey("Char", "N", FALSE, FALSE) /\ call_args.app.search_match_line_indexes # <<>>)
            => call_result = Default(MatchJumped(-1))
    /\ ((NormalKey("Char", "n", FALSE, FALSE) \/ NormalKey("Char", "N", FALSE, FALSE))
            /\ call_args.app.search_match_line_indexes = <<>>)
            => /\ call_result = Default(call_args.app)
               /\ call_result.app.search_match_index = None

\* From the last of the three matches of the tall file the next-match jump
\* wrapped to the first, at line 1.
C34_Witness ==
    /\ NormalKey("Char", "n", FALSE, FALSE)
    /\ call_args.app.file_index = 0
    /\ call_args.app.search_match_line_indexes = <<1, 4, 8>>
    /\ call_args.app.search_match_index = Some(2)
    /\ call_args.app.scroll_offset = 7
    /\ call_result.app.search_match_index = Some(0)
    /\ call_result.app.scroll_offset = 1

\* The event loop is running: the session has an AppState.
InLoop == pc \in {"read", "persist", "write", "paint"}

\* The match list of the session is the one of the active file and the
\* committed query, ascending without repeats and below the line count.
MatchListIsFresh ==
    InLoop =>
        LET file == files[app.file_index + 1]
            matches == app.search_match_line_indexes
        IN  /\ matches = IF app.search_query = <<>> THEN <<>>
                         ELSE build_search_match_line_indexes(file, app.search_query)
            /\ \A i \in 1..Len(matches) :
                /\ matches[i] >= 0
                /\ matches[i] < Max(Len(file.left_lines), Len(file.right_lines))
                /\ i > 1 => matches[i - 1] < matches[i]

\* C35: the match list is never stale: in every reachable state it equals the
\* match list computed for the active file and the committed query (empty when
\* the query is empty), strictly ascending and below
\* max(leftLineCount, rightLineCount); the committed query changes only on a
\* commit (Enter in the search input, which makes the input the query) and
\* stays as it is when the active file changes.
C35_MatchListNeverStale ==
    /\ []MatchListIsFresh
    /\ [][
       /\ (InLoop /\ InLoop' /\ app'.search_query # app.search_query) =>
            /\ pc = "read"
            /\ app.search_input_mode
            /\ \E rows \in RowCounts : app' = apply_search_input(app, files, rows)
       /\ (InLoop /\ InLoop' /\ app'.file_index # app.file_index) =>
            app'.search_query = app.search_query
       ]_vars

\* With the query "r" committed the session moved to the second file, whose
\* match list is another one.
C35_Witness ==
    /\ pc = "read"
    /\ app.search_query = <<"r">>
    /\ app.file_index = 1
    /\ app.search_match_line_indexes # <<>>
    /\ app.search_match_line_indexes #
            build_search_match_line_indexes(files[1], app.search_query)

\* The cursor is none exactly when the match list is empty, and else an index in it.
CursorInMatchList ==
    InLoop =>
        /\ (app.search_match_index = None) <=> (app.search_match_line_indexes = <<>>)
        /\ app.search_match_index # None =>
            /\ app.search_match_index[1] >= 0
            /\ app.search_match_index[1] < Len(app.search_match_line_indexes)

\* C36: in every reachable state the match cursor is none if and only if the
\* match list is empty, and when present it is an index i with
\* 0 <= i < length(matchLines); after the active file changes while a query is
\* committed, the cursor is index 0 when the new file has matches and none
\* otherwise, and scrollOffset is 0.
C36_CursorFollowsMatchList ==
    /\ []CursorInMatchList
    /\ [][(InLoop /\ InLoop' /\ app'.file_index # app.file_index) =>
            /\ app'.scroll_offset = 0
            /\ app.search_query # <<>> =>
                app'.search_match_index =
                    IF build_search_match_line_indexes(files[app'.file_index + 1],
                                                       app.search_query) # <<>>
                    THEN Some(0)
                    ELSE None
         ]_vars

\* With the query "r" committed the session has just moved to the second
\* file: the cursor is at its first match and the scroll offset is 0.
C36_Witness ==
    /\ pc = "paint"
    /\ app.search_query = <<"r">>
    /\ app.file_index = 1
    /\ Len(app.search_match_line_indexes) > 0
    /\ app.search_match_index = Some(0)
    /\ app.scroll_offset = 0

\* The input buffer is empty in Normal mode.
InputEmptyInNormalMode ==
    InLoop => (app.search_input_mode \/ app.search_input = <<>>)

\* C37: in every reachable state the live input buffer is empty whenever the
\* mode is Normal: entering the search input clears the buffer, the buffer
\* changes only while the search input is open, and both commit and cancel
\* leave it empty when they return to Normal.
C37_InputBufferOnlyInSearchMode ==
    /\ []InputEmptyInNormalMode
    /\ [][(InLoop /\ InLoop') =>
            /\ (~app.search_input_mode /\ app'.search_input_mode) => app'.search_input = <<>>
            /\ (app.search_input_mode /\ ~app'.search_input_mode) => app'.search_input = <<>>
            /\ app'.search_input # app.search_input => app.search_input_mode
            /\ Len(app'.search_input) > Len(app.search_input) =>
                /\ app'.search_input_mode
                /\ Len(app'.search_input) = Len(app.search_input) + 1
         ]_vars

\* The input "r" was committed: it is the query, the mode is Normal and the
\* buffer is empty.
C37_Witness ==
    /\ pc = "paint"
    /\ app.search_query = <<"r">>
    /\ ~app.search_input_mode
    /\ app.search_input = <<>>

\* The file of the cycle has a hunk start.
HasHunkStarts == build_hunk_start_lines(call_args.file) # <<>>

\* A press has brought the scroll offset to the first hunk start, clamped to
\* the maximum scroll.
AtFirstHunkStart ==
    /\ call_args.pressed > 0
    /\ HasHunkStarts
    /\ call_result.scroll_offset =
            Min(build_hunk_start_lines(call_args.file)[1],
                Max(0, Max(Len(call_args.file.left_lines), Len(call_args.file.right_lines))
                        - get_body_line_count(call_args.rows)))

\* C38: forward hunk navigation cycles: at a fixed terminal size, in a file
\* with at least one hunk start, pressing the forward hunk jump again and
\* again from any scroll offset brings scrollOffset to the first hunk start
\* (clamped to maxScroll) again and again: after the last hunk the next
\* forward jump wraps to the first instead of staying where it is.
C38_ForwardHunkJumpCycles ==
    HasHunkStarts => []<>AtFirstHunkStart

\* The fingerprints of the session's files.
FileKeys == {files[i].review_key : i \in 1..Len(files)}

\* No two files of the session share a fingerprint.
FileKeysDistinct ==
    \A i, j \in 1..Len(files) : files[i].review_key = files[j].review_key => i = j

\* The store holds the fingerprint of a file exactly when the file is flagged.
FlagsMatchStore ==
    (InLoop /\ FileKeysDistinct) =>
        /\ Len(app.reviewed_by_file) = Len(files)
        /\ \A i \in 1..Len(files) :
              (files[i].review_key \in reviewed_hashes) <=> app.reviewed_by_file[i]

\* The loop has handled a toggle: set_reviewed has run and persist is next.
ToggleHandled == pc = "read" /\ pc' = "persist"

\* C39: the in-memory review flags and the review store stay consistent:
\* with pairwise distinct fingerprints, the store holds the fingerprint of
\* file i if and only if the flag of file i is true, for every file i, after
\* every handled toggle; a toggle adds or removes only the fingerprint of the
\* active file, and fingerprints of the store that belong to no file of the
\* session are never added or removed.
C39_FlagsAndStoreAgree ==
    /\ []FlagsMatchStore
    /\ [][(InLoop /\ InLoop' /\ FileKeysDistinct) =>
            /\ ToggleHandled =>
                LET active == files[app.file_index + 1].review_key
                IN  /\ (reviewed_hashes' \ reviewed_hashes)
                          \cup (reviewed_hashes \ reviewed_hashes') = {active}
                    /\ (active \in reviewed_hashes') <=> (active \notin reviewed_hashes)
                    /\ app'.file_index = app.file_index
                    /\ \A i \in 1..Len(files) :
                          app'.reviewed_by_file[i] =
                              IF i = app.file_index + 1
                              THEN ~app.reviewed_by_file[i]
                              ELSE app.reviewed_by_file[i]
            /\ ~ToggleHandled =>
                /\ reviewed_hashes' = reviewed_hashes
                /\ app'.reviewed_by_file = app.reviewed_by_file
            /\ reviewed_hashes' \ FileKeys = reviewed_hashes \ FileKeys
         ]_vars

\* The second file was toggled to reviewed in a session whose store also
\* holds a hand-written fingerprint of no file: the store has both.
C39_Witness ==
    /\ pc = "persist"
    /\ FileKeysDistinct
    /\ app.file_index = 1
    /\ app.reviewed_by_file = <<FALSE, TRUE, FALSE>>
    /\ reviewed_hashes = {<<"f">>, files[2].review_key}
    /\ <<"f">> \notin FileKeys
====
